---- MODULE Spec2Model ----
(***************************************************************************)
(* Model of the Leafy Bank / Open Finance backend: the bearer-token        *)
(* authenticator, the identity match of the secured endpoints, the record  *)
(* lookups and the balance / debt aggregations, over a document store.     *)
(*                                                                         *)
(* Strings are sequences of one-character strings; an ObjectId is the      *)
(* lower-case 24-digit hex rendering of its 12 bytes.  Every value that    *)
(* can be stored or compared is tagged with its type, because the store    *)
(* never equates a string with an ObjectId.                                *)
(***************************************************************************)
EXTENDS Integers, Sequences, FiniteSets, TLC

VARIABLES tokens, keys, users, accounts, transactions, external_accounts,
          external_products, clock, resp, calls

vars == <<tokens, keys, users, accounts, transactions, external_accounts,
          external_products, clock, resp, calls>>

store == <<tokens, keys, users, accounts, transactions, external_accounts,
           external_products>>

(***************************************************************************)
(* Bounds of the model.                                                    *)
(***************************************************************************)
MaxClock == 2
MaxAllow == 2
MaxInserted == 1

\* The workers that serve service calls at the same time.
MaxWorkers == 2

\* The accounts the accounts collection may come to hold.
MaxAccounts == 3

\* The largest max_retries of a create-user request, and the most token
\* documents the store holds.
MaxRetries == 2

MaxTokens == 3

(***************************************************************************)
(* Strings and structured identifiers (bson.ObjectId).                     *)
(***************************************************************************)
HexLower == {"0", "1", "2", "3", "4", "5", "6", "7", "8", "9",
             "a", "b", "c", "d", "e", "f"}

HexUpper == {"A", "B", "C", "D", "E", "F"}

LowerChar(c) ==
    CASE c = "A" -> "a" [] c = "B" -> "b" [] c = "C" -> "c"
      [] c = "D" -> "d" [] c = "E" -> "e" [] c = "F" -> "f"
      [] OTHER -> c

Rep(c) == [i \in 1..(2 * 12) |-> c]

Str(s) == [t |-> "str", v |-> s]

None == [t |-> "none", v |-> <<>>]

\* ObjectId.is_valid(s) for a str: 24 characters, all hex digits.
is_valid(s) ==
    /\ Len(s) = 2 * 12
    /\ \A i \in 1..Len(s) : s[i] \in HexLower \cup HexUpper

\* ObjectId(s): the 12 bytes the hex digits denote (letter case is lost).
ObjectId(s) == [t |-> "oid", v |-> [i \in 1..Len(s) |-> LowerChar(s[i])]]

\* str(oid): the lower-case hex rendering.
str(oid) == oid.v

isinstance_ObjectId(x) == x.t = "oid"

Truthy(s) == Len(s) > 0

(***************************************************************************)
(* The strings and identifiers the model draws its inputs from.            *)
(***************************************************************************)
Empty == <<>>

NameAl == <<"a", "l">>

NameBo == <<"b", "o">>

\* A user name that is itself a well-formed 24-digit hex string.
NameHex == Rep("a")

Tok1 == <<"t", "1">>

Tok2 == <<"t", "2">>

TokX == <<"t", "x">>

Malformed == <<"z", "z">>

Oid(c) == ObjectId(Rep(c))

NoDate == 0 - 1

NoDoc == [_id |-> None]

(***************************************************************************)
(* The document store: find_one, update_one over a collection kept in      *)
(* insertion order.                                                        *)
(***************************************************************************)
Range(f) == {f[i] : i \in DOMAIN f}

\* The positions of the documents a filter selects; hits is the set of
\* documents that satisfy the filter.
Matching(coll, hits) == {i \in 1..Len(coll) : coll[i] \in hits}

Min(S) == CHOOSE x \in S : \A y \in S : x <= y

\* find_one(filter): the first matching document, or None.
find_one(coll, hits) ==
    IF Matching(coll, hits) = {} THEN NoDoc
    ELSE coll[Min(Matching(coll, hits))]

\* find(filter): every matching document.
find(coll, hits) == {coll[i] : i \in Matching(coll, hits)}

\* {'$group': {'_id': None, 'Total': {'$sum': '$AccountBalance'}}}; no
\* group, and so the caller's 0, when nothing matched.
RECURSIVE SumAccountBalance(_)
SumAccountBalance(S) ==
    IF S = {} THEN 0
    ELSE LET d == CHOOSE x \in S : TRUE
         IN  d.AccountBalance + SumAccountBalance(S \ {d})

RECURSIVE SumProductAmount(_)
SumProductAmount(S) ==
    IF S = {} THEN 0
    ELSE LET d == CHOOSE x \in S : TRUE
         IN  d.ProductAmount + SumProductAmount(S \ {d})

IsNone(d) == d._id.t = "none"

(***************************************************************************)
(* services/auth.py: Auth.bearer_token_validation                          *)
(***************************************************************************)
\* A validator that never writes LastUseDate.
StampLastUse_Skipped(coll, bearer_token, now) == coll

StampLastUse(coll, bearer_token, now) ==
    LET hit(d) == d.BearerToken = bearer_token
        m == Matching(coll, {d \in Range(coll) : hit(d)})
    IN  IF m = {} THEN coll
        ELSE [coll EXCEPT ![Min(m)].LastUseDate = now]

\* A validator without the "if not bearer_token" branch: the empty
\* credential is looked up like any other.
bearer_token_validation_NoEmptyCheck(coll, bearer_token, now) ==
    LET hit(d) == d.BearerToken = bearer_token
        user == find_one(coll, {d \in Range(coll) : hit(d)})
    IN  IF IsNone(user)
        THEN [status |-> 403, detail |-> "Invalid bearer token.",
              user |-> NoDoc, tokens |-> coll,
              trace |-> <<"tokens.find_one">>]
        ELSE [status |-> 200, detail |-> "ok",
              user |-> user, tokens |-> StampLastUse(coll, bearer_token, now),
              trace |-> <<"tokens.find_one", "tokens.update_one">>]

\* A validator that runs its update before it looks at what find_one
\* returned, with a filter that an unknown credential also satisfies.
bearer_token_validation_StampOnMiss(coll, bearer_token, now) ==
    LET hit(d) == d.BearerToken = bearer_token
        user == find_one(coll, {d \in Range(coll) : hit(d)})
        all == [i \in 1..Len(coll) |-> [coll[i] EXCEPT !.LastUseDate = now]]
    IN  IF ~Truthy(bearer_token)
        THEN [status |-> 400, detail |-> "Bearer token is missing.",
              user |-> NoDoc, tokens |-> coll, trace |-> <<>>]
        ELSE IF IsNone(user)
        THEN [status |-> 403, detail |-> "Invalid bearer token.",
              user |-> NoDoc, tokens |-> all,
              trace |-> <<"tokens.find_one">>]
        ELSE [status |-> 200, detail |-> "ok",
              user |-> user, tokens |-> StampLastUse(coll, bearer_token, now),
              trace |-> <<"tokens.find_one", "tokens.update_one">>]

\* A validator that returns the owner without the update of LastUseDate.
bearer_token_validation_Unstamped(coll, bearer_token, now) ==
    LET hit(d) == d.BearerToken = bearer_token
        user == find_one(coll, {d \in Range(coll) : hit(d)})
    IN  IF ~Truthy(bearer_token)
        THEN [status |-> 400, detail |-> "Bearer token is missing.",
              user |-> NoDoc, tokens |-> coll, trace |-> <<>>]
        ELSE IF IsNone(user)
        THEN [status |-> 403, detail |-> "Invalid bearer token.",
              user |-> NoDoc, tokens |-> coll,
              trace |-> <<"tokens.find_one">>]
        ELSE [status |-> 200, detail |-> "ok",
              user |-> user, tokens |-> coll,
              trace |-> <<"tokens.find_one">>]

bearer_token_validation(coll, bearer_token, now) ==
    LET hit(d) == d.BearerToken = bearer_token
        user == find_one(coll, {d \in Range(coll) : hit(d)})
    IN  IF ~Truthy(bearer_token)
        THEN [status |-> 400, detail |-> "Bearer token is missing.",
              user |-> NoDoc, tokens |-> coll, trace |-> <<>>]
        ELSE IF IsNone(user)
        THEN [status |-> 403, detail |-> "Invalid bearer token.",
              user |-> NoDoc, tokens |-> coll,
              trace |-> <<"tokens.find_one">>]
        ELSE [status |-> 200, detail |-> "ok",
              user |-> user, tokens |-> StampLastUse(coll, bearer_token, now),
              trace |-> <<"tokens.find_one", "tokens.update_one">>]

\* Auth.api_key_validation: the same steps over the keys collection and
\* its ApiKey field.
StampKeyLastUse(coll, api_key, now) ==
    LET hit(d) == d.ApiKey = api_key
        m == Matching(coll, {d \in Range(coll) : hit(d)})
    IN  IF m = {} THEN coll
        ELSE [coll EXCEPT ![Min(m)].LastUseDate = now]

api_key_validation(coll, api_key, now) ==
    LET hit(d) == d.ApiKey = api_key
        user == find_one(coll, {d \in Range(coll) : hit(d)})
    IN  IF ~Truthy(api_key)
        THEN [status |-> 400, detail |-> "API key is missing.",
              user |-> NoDoc, tokens |-> coll, trace |-> <<>>]
        ELSE IF IsNone(user)
        THEN [status |-> 403, detail |-> "Invalid API key.",
              user |-> NoDoc, tokens |-> coll,
              trace |-> <<"keys.find_one">>]
        ELSE [status |-> 200, detail |-> "ok",
              user |-> user, tokens |-> StampKeyLastUse(coll, api_key, now),
              trace |-> <<"keys.find_one", "keys.update_one">>]

(***************************************************************************)
(* services/internal: AccountsService, UsersService                        *)
(***************************************************************************)
\* The identifier is an ObjectId after the router's conversion, or a
\* user name otherwise.
get_accounts_for_user(coll, user_identifier) ==
    LET byId(d) == d.AccountUser.UserId = user_identifier
        byName(d) == d.AccountUser.UserName = user_identifier.v
    IN  IF isinstance_ObjectId(user_identifier)
        THEN find(coll, {d \in Range(coll) : byId(d)})
        ELSE find(coll, {d \in Range(coll) : byName(d)})

get_user(coll, user_identifier) ==
    LET byId(d) == d._id = user_identifier
        byName(d) == d.UserName = user_identifier.v
    IN  IF isinstance_ObjectId(user_identifier)
        THEN find_one(coll, {d \in Range(coll) : byId(d)})
        ELSE find_one(coll, {d \in Range(coll) : byName(d)})

\* find_one({"AccountNumber": account_number}): the document or None.
get_account_by_number(coll, account_number) ==
    find_one(coll, {d \in Range(coll) : d.AccountNumber = account_number})

\* An active-only lookup whose filter has no AccountStatus.
get_active_account_by_number_AnyStatus(coll, account_number) ==
    find_one(coll, {d \in Range(coll) : d.AccountNumber = account_number})

\* find_one({"AccountNumber": account_number, "AccountStatus": "Active"}).
get_active_account_by_number(coll, account_number) ==
    find_one(coll, {d \in Range(coll) : /\ d.AccountNumber = account_number
                                        /\ d.AccountStatus = "Active"})

\* initial_balance_limit = float(1000000)
initial_balance_limit == 1000000

\* create_account up to its first write: "InvalidId" when ObjectId(user_id)
\* raises, the message of the ValueError it raises, or "ok".
create_account_checks(us, acc, account_number, account_balance, user_name, user_id) ==
    LET user == find_one(us, {d \in Range(us) : /\ d._id = ObjectId(user_id)
                                                /\ d.UserName = user_name})
        duplicate == find_one(acc, {d \in Range(acc) :
                                       d.AccountNumber = account_number})
    IN  IF ~is_valid(user_id) THEN "InvalidId"
        ELSE IF IsNone(user) THEN "ValueError: Invalid user ID or username."
        ELSE IF account_balance < 0
        THEN "ValueError: Account balance must be greater than or equal to 0."
        ELSE IF account_balance > initial_balance_limit
        THEN "ValueError: Account balance exceeds the limit."
        ELSE IF ~IsNone(duplicate)
        THEN "ValueError: An account with this number already exists."
        ELSE "ok"

\* account_data of create_account.
create_account_data(new_id, account_number, account_balance, user_name, user_id) ==
    [_id |-> new_id, AccountNumber |-> account_number,
     AccountBank |-> "LeafyBank", AccountStatus |-> "Active",
     AccountBalance |-> account_balance,
     AccountUser |-> [UserName |-> user_name, UserId |-> ObjectId(user_id)],
     ClosingDate |-> NoDate]

\* accounts_collection.insert_one(account_data)
create_account_insert(acc, account_data) == Append(acc, account_data)

\* users_collection.update_one({"_id": user_id_obj},
\*                             {"$addToSet": {"LinkedAccounts": account_id}})
create_account_link(us, user_id_obj, account_id) ==
    LET m == Matching(us, {d \in Range(us) : d._id = user_id_obj})
    IN  IF m = {} THEN us
        ELSE [us EXCEPT ![Min(m)].LinkedAccounts = @ \cup {account_id}]

\* A close_account without the check of AccountBalance.
close_account_AnyBalance(acc, account_id, now) ==
    IF ~is_valid(account_id)
    THEN [raised |-> "InvalidId", ret |-> FALSE, accounts |-> acc]
    ELSE
    LET account_oid == ObjectId(account_id)
        hits == {d \in Range(acc) : d._id = account_oid}
        account == find_one(acc, hits)
        i == Min(Matching(acc, hits))
        closed == [acc EXCEPT ![i].AccountStatus = "Closed",
                              ![i].ClosingDate = now]
    IN  IF IsNone(account)
        THEN [raised |-> "", ret |-> FALSE, accounts |-> acc]
        ELSE IF closed # acc
        THEN [raised |-> "", ret |-> TRUE, accounts |-> closed]
        ELSE [raised |-> "", ret |-> FALSE, accounts |-> acc]

\* A close_account whose $set has no 'AccountDate.ClosingDate'.
close_account_NoClosingDate(acc, account_id, now) ==
    IF ~is_valid(account_id)
    THEN [raised |-> "InvalidId", ret |-> FALSE, accounts |-> acc]
    ELSE
    LET account_oid == ObjectId(account_id)
        hits == {d \in Range(acc) : d._id = account_oid}
        account == find_one(acc, hits)
        i == Min(Matching(acc, hits))
        closed == [acc EXCEPT ![i].AccountStatus = "Closed"]
    IN  IF IsNone(account)
        THEN [raised |-> "", ret |-> FALSE, accounts |-> acc]
        ELSE IF account.AccountBalance # 0
        THEN [raised |-> "", ret |-> FALSE, accounts |-> acc]
        ELSE IF closed # acc
        THEN [raised |-> "", ret |-> TRUE, accounts |-> closed]
        ELSE [raised |-> "", ret |-> FALSE, accounts |-> acc]

\* close_account: [raised, ret, accounts].  update_one reports
\* modified_count > 0 when the $set changed the document.
close_account(acc, account_id, now) ==
    IF ~is_valid(account_id)
    THEN [raised |-> "InvalidId", ret |-> FALSE, accounts |-> acc]
    ELSE
    LET account_oid == ObjectId(account_id)
        hits == {d \in Range(acc) : d._id = account_oid}
        account == find_one(acc, hits)
        i == Min(Matching(acc, hits))
        closed == [acc EXCEPT ![i].AccountStatus = "Closed",
                              ![i].ClosingDate = now]
    IN  IF IsNone(account)
        THEN [raised |-> "", ret |-> FALSE, accounts |-> acc]
        ELSE IF account.AccountBalance # 0
        THEN [raised |-> "", ret |-> FALSE, accounts |-> acc]
        ELSE IF closed # acc
        THEN [raised |-> "", ret |-> TRUE, accounts |-> closed]
        ELSE [raised |-> "", ret |-> FALSE, accounts |-> acc]

(***************************************************************************)
(* services/external: ExternalAccounts, ExternalFinancialProducts          *)
(***************************************************************************)
get_external_accounts_for_user(coll, user_identifier, bank_name) ==
    LET byId(d) == /\ d.AccountUser.UserId = user_identifier
                   /\ d.AccountBank = bank_name
        byName(d) == /\ d.AccountUser.UserName = user_identifier.v
                     /\ d.AccountBank = bank_name
    IN  IF isinstance_ObjectId(user_identifier)
        THEN find(coll, {d \in Range(coll) : byId(d)})
        ELSE find(coll, {d \in Range(coll) : byName(d)})

get_external_accounts_for_user_and_institution(coll, user_identifier, institution_name) ==
    get_external_accounts_for_user(coll, user_identifier, institution_name)

get_all_external_accounts_for_user(coll, user_identifier) ==
    LET byId(d) == d.AccountUser.UserId = user_identifier
        byName(d) == d.AccountUser.UserName = user_identifier.v
    IN  IF isinstance_ObjectId(user_identifier)
        THEN find(coll, {d \in Range(coll) : byId(d)})
        ELSE find(coll, {d \in Range(coll) : byName(d)})

get_external_products_for_user_and_institution(coll, user_identifier, institution_name) ==
    LET byId(d) == /\ d.ProductCustomer.UserId = user_identifier
                   /\ d.ProductBank = institution_name
        byName(d) == /\ d.ProductCustomer.UserName = user_identifier.v
                     /\ d.ProductBank = institution_name
    IN  IF isinstance_ObjectId(user_identifier)
        THEN find(coll, {d \in Range(coll) : byId(d)})
        ELSE find(coll, {d \in Range(coll) : byName(d)})

get_all_external_products_for_user(coll, user_identifier) ==
    LET byId(d) == d.ProductCustomer.UserId = user_identifier
        byName(d) == d.ProductCustomer.UserName = user_identifier.v
    IN  IF isinstance_ObjectId(user_identifier)
        THEN find(coll, {d \in Range(coll) : byId(d)})
        ELSE find(coll, {d \in Range(coll) : byName(d)})

(***************************************************************************)
(* services/account_aggregations.py: AccountAggregations                   *)
(***************************************************************************)
AllValid(l) == \A i \in 1..Len(l) : is_valid(l[i])

ObjectIds(l) == {ObjectId(l[i]) : i \in 1..Len(l)}

\* A list argument is truthy when it is neither None nor empty.
TruthyList(a) == a.t = "list" /\ Len(a.v) > 0

_aggregate_internal_account_balances(coll, user_id) ==
    LET m(d) == d.AccountUser.UserId = user_id
    IN  SumAccountBalance(find(coll, {d \in Range(coll) : m(d)}))

\* An external aggregation whose $match has no 'AccountUser.UserId'.
_aggregate_external_account_balances_AnyOwner(coll, user_id, connected_external_accounts) ==
    LET ids == ObjectIds(connected_external_accounts.v)
        m(d) == TruthyList(connected_external_accounts) => d._id \in ids
    IN  SumAccountBalance(find(coll, {d \in Range(coll) : m(d)}))

_aggregate_external_account_balances(coll, user_id, connected_external_accounts) ==
    LET ids == ObjectIds(connected_external_accounts.v)
        m(d) == /\ d.AccountUser.UserId = user_id
                /\ (TruthyList(connected_external_accounts) => d._id \in ids)
    IN  SumAccountBalance(find(coll, {d \in Range(coll) : m(d)}))

\* A total that aggregates the external accounts whether or not a list
\* was given.
get_user_account_balances_AllExternal(acc, ext, user_id, connected_external_accounts) ==
    IF ~is_valid(user_id)
    THEN [ok |-> FALSE, total |-> 0, trace |-> <<>>]
    ELSE
    LET user_id_obj == ObjectId(user_id)
        internal_total_balance ==
            _aggregate_internal_account_balances(acc, user_id_obj)
    IN  IF TruthyList(connected_external_accounts)
           /\ ~AllValid(connected_external_accounts.v)
        THEN [ok |-> FALSE, total |-> 0, trace |-> <<"accounts.aggregate">>]
        ELSE [ok |-> TRUE,
              total |-> internal_total_balance
                        + _aggregate_external_account_balances(
                              ext, user_id_obj, connected_external_accounts),
              trace |-> <<"accounts.aggregate",
                          "external_accounts.aggregate">>]

\* The result is [ok, total, trace]: ok is FALSE when ObjectId() raised
\* InvalidId, and trace lists the queries issued up to that point.
get_user_account_balances(acc, ext, user_id, connected_external_accounts) ==
    IF ~is_valid(user_id)
    THEN [ok |-> FALSE, total |-> 0, trace |-> <<>>]
    ELSE
    LET user_id_obj == ObjectId(user_id)
        internal_total_balance ==
            _aggregate_internal_account_balances(acc, user_id_obj)
    IN  IF ~TruthyList(connected_external_accounts)
        THEN [ok |-> TRUE, total |-> internal_total_balance + 0,
              trace |-> <<"accounts.aggregate">>]
        ELSE IF ~AllValid(connected_external_accounts.v)
        THEN [ok |-> FALSE, total |-> 0, trace |-> <<"accounts.aggregate">>]
        ELSE [ok |-> TRUE,
              total |-> internal_total_balance
                        + _aggregate_external_account_balances(
                              ext, user_id_obj, connected_external_accounts),
              trace |-> <<"accounts.aggregate",
                          "external_accounts.aggregate">>]

(***************************************************************************)
(* services/aggregations/product_aggregations.py: ProductAggregations      *)
(***************************************************************************)
\* A debt aggregation whose $match has no 'ProductType'.
_aggregate_external_products_debt_AnyType(coll, user_id, connected_external_products) ==
    LET ids == ObjectIds(connected_external_products.v)
        m(d) == /\ d._id \in ids
                /\ d.ProductCustomer.UserId = user_id
    IN  IF ~TruthyList(connected_external_products)
        THEN [ok |-> TRUE, total |-> 0, trace |-> <<>>]
        ELSE IF ~AllValid(connected_external_products.v)
        THEN [ok |-> FALSE, total |-> 0, trace |-> <<>>]
        ELSE [ok |-> TRUE,
              total |-> SumProductAmount(find(coll, {d \in Range(coll) : m(d)})),
              trace |-> <<"external_products.aggregate">>]

\* A debt aggregation without the early return: with no list it sums every
\* Loan and Mortgage of the user.
_aggregate_external_products_debt_NoEarlyReturn(coll, user_id, connected_external_products) ==
    LET ids == ObjectIds(connected_external_products.v)
        m(d) == /\ (TruthyList(connected_external_products) => d._id \in ids)
                /\ d.ProductCustomer.UserId = user_id
                /\ d.ProductType \in {"Loan", "Mortgage"}
    IN  IF TruthyList(connected_external_products)
           /\ ~AllValid(connected_external_products.v)
        THEN [ok |-> FALSE, total |-> 0, trace |-> <<>>]
        ELSE [ok |-> TRUE, total |-> SumProductAmount(find(coll, {d \in Range(coll) : m(d)})),
              trace |-> <<"external_products.aggregate">>]

_aggregate_external_products_debt(coll, user_id, connected_external_products) ==
    LET ids == ObjectIds(connected_external_products.v)
        m(d) == /\ d._id \in ids
                /\ d.ProductCustomer.UserId = user_id
                /\ d.ProductType \in {"Loan", "Mortgage"}
    IN  IF ~TruthyList(connected_external_products)
        THEN [ok |-> TRUE, total |-> 0, trace |-> <<>>]
        ELSE IF ~AllValid(connected_external_products.v)
        THEN [ok |-> FALSE, total |-> 0, trace |-> <<>>]
        ELSE [ok |-> TRUE, total |-> SumProductAmount(find(coll, {d \in Range(coll) : m(d)})),
              trace |-> <<"external_products.aggregate">>]

get_user_total_debt(coll, user_id, connected_external_products) ==
    IF ~is_valid(user_id)
    THEN [ok |-> FALSE, total |-> 0, trace |-> <<>>]
    ELSE _aggregate_external_products_debt(coll, ObjectId(user_id),
                                           connected_external_products)

(***************************************************************************)
(* services/internal/transactions_service.py: TransactionsService          *)
(***************************************************************************)
is_valid_user(coll, user_identifier) == ~IsNone(get_user(coll, user_identifier))

get_recent_transactions_for_user(coll, user_identifier) ==
    LET byId(d) == d.TransactionUser.UserId = user_identifier
        byName(d) == d.TransactionUser.UserName = user_identifier.v
    IN  IF isinstance_ObjectId(user_identifier)
        THEN find(coll, {d \in Range(coll) : byId(d)})
        ELSE find(coll, {d \in Range(coll) : byName(d)})

(***************************************************************************)
(* services/external: the generators that insert a fabricated record.      *)
(* The random draws and the fresh ObjectId() are parameters.               *)
(***************************************************************************)
ExternalAccounts_retrieve_external_account_for_user(coll, account_bank, user_name, user_id, new_id, account_type, account_balance) ==
    IF ~is_valid(user_id)
    THEN [ok |-> FALSE, coll |-> coll, doc |-> NoDoc]
    ELSE LET account_data ==
                 [_id |-> new_id, AccountBank |-> account_bank,
                  AccountStatus |-> "Active", AccountType |-> account_type,
                  AccountBalance |-> account_balance,
                  AccountUser |-> [UserName |-> user_name,
                                   UserId |-> ObjectId(user_id)]]
         IN  [ok |-> TRUE, coll |-> Append(coll, account_data),
              doc |-> account_data]

ExternalFinancialProducts_retrieve_external_product_for_user(coll, product_bank, user_name, user_id, new_id, product_type, product_amount) ==
    IF ~is_valid(user_id)
    THEN [ok |-> FALSE, coll |-> coll, doc |-> NoDoc]
    ELSE LET product_data ==
                 [_id |-> new_id, ProductBank |-> product_bank,
                  ProductStatus |-> "Active", ProductType |-> product_type,
                  ProductAmount |-> product_amount,
                  ProductCustomer |-> [UserName |-> user_name,
                                       UserId |-> ObjectId(user_id)]]
         IN  [ok |-> TRUE, coll |-> Append(coll, product_data),
              doc |-> product_data]

(***************************************************************************)
(* The secured routers.  A handler's result carries the HTTP status, the   *)
(* authenticated record, the documents or number of the body, the          *)
(* collections it wrote and the trace of what it did, in order: the store  *)
(* calls and the two checks it passed ("validated", "matched").            *)
(***************************************************************************)
Result(v, status, detail, body, total, trace, ext_acc, ext_prod) ==
    [status |-> status, detail |-> detail, auth |-> v.user, body |-> body,
     total |-> total, trace |-> trace, tokens |-> v.tokens,
     external_accounts |-> ext_acc, external_products |-> ext_prod]

\* A match that lets every identifier through.
OwnsIdentifier_Anyone(user_auth, user_identifier) == TRUE

\* A match that compares the identifier with the UserName only.
OwnsIdentifier_NameOnly(user_auth, user_identifier) ==
    ~(user_auth.UserName # user_identifier)

\* A match that is content with one of the two fields.
OwnsNameAndId_Either(user_auth, user_name, user_id) ==
    ~(/\ user_auth.UserName # user_name
      /\ str(user_auth._id) # user_id)

\* The match of the endpoints that take one user_identifier.
OwnsIdentifier(user_auth, user_identifier) ==
    ~(/\ user_auth.UserName # user_identifier
      /\ str(user_auth._id) # user_identifier)

\* The match of the endpoints that take user_name and user_id.
OwnsNameAndId(user_auth, user_name, user_id) ==
    ~(\/ user_auth.UserName # user_name
      \/ str(user_auth._id) # user_id)

\* The match of the aggregation endpoints; user_id is well formed here.
OwnsUserId(user_auth, user_id) == ~(user_auth._id # ObjectId(user_id))

\* if ObjectId.is_valid(user_identifier): user_identifier = ObjectId(...)
Convert(user_identifier) ==
    IF is_valid(user_identifier) THEN ObjectId(user_identifier)
    ELSE Str(user_identifier)

Unauthorized == "Unauthorized: The Bearer Token does not belong to the user."

Required == "User identifier is required"

fetch_accounts_for_user(toks, acc, ea, ep, bearer_token, user_identifier, now) ==
    LET v == bearer_token_validation(toks, bearer_token, now)
        t1 == v.trace \o <<"validated">>
        t2 == t1 \o <<"matched">>
    IN  IF v.status # 200
        THEN Result(v, v.status, v.detail, {}, 0, v.trace, ea, ep)
        ELSE IF ~OwnsIdentifier(v.user, user_identifier)
        THEN Result(v, 403, Unauthorized, {}, 0, t1, ea, ep)
        ELSE Result(v, 200, "ok",
                    get_accounts_for_user(acc, Convert(user_identifier)), 0,
                    t2 \o <<"accounts.find">>, ea, ep)

find_user(toks, us, ea, ep, bearer_token, user_identifier, now) ==
    LET v == bearer_token_validation(toks, bearer_token, now)
        t1 == v.trace \o <<"validated">>
        t2 == t1 \o <<"matched">>
        user == get_user(us, Convert(user_identifier))
    IN  IF v.status # 200
        THEN Result(v, v.status, v.detail, {}, 0, v.trace, ea, ep)
        ELSE IF ~OwnsIdentifier(v.user, user_identifier)
        THEN Result(v, 403, Unauthorized, {}, 0, t1, ea, ep)
        ELSE IF IsNone(user)
        THEN Result(v, 404, "User not found.", {}, 0,
                    t2 \o <<"users.find_one">>, ea, ep)
        ELSE Result(v, 200, "ok", {user}, 0,
                    t2 \o <<"users.find_one">>, ea, ep)

fetch_recent_transactions_for_user(toks, us, tx, ea, ep, bearer_token, user_identifier, now) ==
    LET v == bearer_token_validation(toks, bearer_token, now)
        t1 == v.trace \o <<"validated">>
        t2 == t1 \o <<"matched">>
        id == Convert(user_identifier)
    IN  IF v.status # 200
        THEN Result(v, v.status, v.detail, {}, 0, v.trace, ea, ep)
        ELSE IF ~Truthy(user_identifier)
        THEN Result(v, 400, "User identifier is required.", {}, 0, t1, ea, ep)
        ELSE IF ~OwnsIdentifier(v.user, user_identifier)
        THEN Result(v, 403, Unauthorized, {}, 0, t1, ea, ep)
        ELSE IF ~is_valid_user(us, id)
        THEN Result(v, 404, "User not found.", {}, 0,
                    t2 \o <<"users.find_one">>, ea, ep)
        ELSE Result(v, 200, "ok", get_recent_transactions_for_user(tx, id), 0,
                    t2 \o <<"users.find_one", "transactions.find">>, ea, ep)

\* In the four handlers below the 400 for an empty identifier is raised
\* inside the try block, whose except clause turns it into a 500.
fetch_external_accounts_for_user_and_institution(toks, ea, ep, bearer_token, user_identifier, institution_name, now) ==
    LET v == bearer_token_validation(toks, bearer_token, now)
        t1 == v.trace \o <<"validated">>
        t2 == t1 \o <<"matched">>
    IN  IF v.status # 200
        THEN Result(v, v.status, v.detail, {}, 0, v.trace, ea, ep)
        ELSE IF ~OwnsIdentifier(v.user, user_identifier)
        THEN Result(v, 403, Unauthorized, {}, 0, t1, ea, ep)
        ELSE IF ~Truthy(user_identifier)
        THEN Result(v, 500, Required, {}, 0, t2, ea, ep)
        ELSE Result(v, 200, "ok",
                    get_external_accounts_for_user_and_institution(
                        ea, Convert(user_identifier), institution_name), 0,
                    t2 \o <<"external_accounts.find">>, ea, ep)

fetch_external_products_for_user_and_institution(toks, ea, ep, bearer_token, user_identifier, institution_name, now) ==
    LET v == bearer_token_validation(toks, bearer_token, now)
        t1 == v.trace \o <<"validated">>
        t2 == t1 \o <<"matched">>
    IN  IF v.status # 200
        THEN Result(v, v.status, v.detail, {}, 0, v.trace, ea, ep)
        ELSE IF ~OwnsIdentifier(v.user, user_identifier)
        THEN Result(v, 403, Unauthorized, {}, 0, t1, ea, ep)
        ELSE IF ~Truthy(user_identifier)
        THEN Result(v, 500, Required, {}, 0, t2, ea, ep)
        ELSE Result(v, 200, "ok",
                    get_external_products_for_user_and_institution(
                        ep, Convert(user_identifier), institution_name), 0,
                    t2 \o <<"external_products.find">>, ea, ep)

fetch_all_external_accounts_for_user(toks, ea, ep, bearer_token, user_identifier, now) ==
    LET v == bearer_token_validation(toks, bearer_token, now)
        t1 == v.trace \o <<"validated">>
        t2 == t1 \o <<"matched">>
    IN  IF v.status # 200
        THEN Result(v, v.status, v.detail, {}, 0, v.trace, ea, ep)
        ELSE IF ~OwnsIdentifier(v.user, user_identifier)
        THEN Result(v, 403, Unauthorized, {}, 0, t1, ea, ep)
        ELSE IF ~Truthy(user_identifier)
        THEN Result(v, 500, Required, {}, 0, t2, ea, ep)
        ELSE Result(v, 200, "ok",
                    get_all_external_accounts_for_user(
                        ea, Convert(user_identifier)), 0,
                    t2 \o <<"external_accounts.find">>, ea, ep)

fetch_all_external_products_for_user(toks, ea, ep, bearer_token, user_identifier, now) ==
    LET v == bearer_token_validation(toks, bearer_token, now)
        t1 == v.trace \o <<"validated">>
        t2 == t1 \o <<"matched">>
    IN  IF v.status # 200
        THEN Result(v, v.status, v.detail, {}, 0, v.trace, ea, ep)
        ELSE IF ~OwnsIdentifier(v.user, user_identifier)
        THEN Result(v, 403, Unauthorized, {}, 0, t1, ea, ep)
        ELSE IF ~Truthy(user_identifier)
        THEN Result(v, 500, Required, {}, 0, t2, ea, ep)
        ELSE Result(v, 200, "ok",
                    get_all_external_products_for_user(
                        ep, Convert(user_identifier)), 0,
                    t2 \o <<"external_products.find">>, ea, ep)

\* routers/secure.py, the API-key router.
fetch_external_accounts_for_user(ks, ea, ep, api_key, user_identifier, bank_name, now) ==
    LET v == api_key_validation(ks, api_key, now)
        t1 == v.trace \o <<"validated">>
        t2 == t1 \o <<"matched">>
    IN  IF v.status # 200
        THEN Result(v, v.status, v.detail, {}, 0, v.trace, ea, ep)
        ELSE IF ~OwnsIdentifier(v.user, user_identifier)
        THEN Result(v, 403, Unauthorized, {}, 0, t1, ea, ep)
        ELSE IF ~Truthy(user_identifier)
        THEN Result(v, 500, Required, {}, 0, t2, ea, ep)
        ELSE Result(v, 200, "ok",
                    get_external_accounts_for_user(
                        ea, Convert(user_identifier), bank_name), 0,
                    t2 \o <<"external_accounts.find">>, ea, ep)

\* ObjectId(user_id) in the match is outside the try block: a malformed
\* user_id ends the request with the framework's 500.
calculate_total_balance_for_user(toks, acc, ea, ep, bearer_token, user_id, connected_external_accounts, now) ==
    LET v == bearer_token_validation(toks, bearer_token, now)
        t1 == v.trace \o <<"validated">>
        t2 == t1 \o <<"matched">>
        r == get_user_account_balances(acc, ea, user_id,
                                       connected_external_accounts)
    IN  IF v.status # 200
        THEN Result(v, v.status, v.detail, {}, 0, v.trace, ea, ep)
        ELSE IF ~is_valid(user_id)
        THEN Result(v, 500, "Internal Server Error", {}, 0, t1, ea, ep)
        ELSE IF ~OwnsUserId(v.user, user_id)
        THEN Result(v, 403, Unauthorized, {}, 0, t1, ea, ep)
        ELSE IF ~r.ok
        THEN Result(v, 500, "Internal Server Error", {}, 0,
                    t2 \o r.trace, ea, ep)
        ELSE Result(v, 200, "ok", {}, r.total, t2 \o r.trace, ea, ep)

calculate_total_debt_for_user(toks, ea, ep, bearer_token, user_id, connected_external_products, now) ==
    LET v == bearer_token_validation(toks, bearer_token, now)
        t1 == v.trace \o <<"validated">>
        t2 == t1 \o <<"matched">>
        r == get_user_total_debt(ep, user_id, connected_external_products)
    IN  IF v.status # 200
        THEN Result(v, v.status, v.detail, {}, 0, v.trace, ea, ep)
        ELSE IF ~is_valid(user_id)
        THEN Result(v, 500, "Internal Server Error", {}, 0, t1, ea, ep)
        ELSE IF ~OwnsUserId(v.user, user_id)
        THEN Result(v, 403, Unauthorized, {}, 0, t1, ea, ep)
        ELSE IF ~r.ok
        THEN Result(v, 500, "Internal Server Error", {}, 0,
                    t2 \o r.trace, ea, ep)
        ELSE Result(v, 200, "ok", {}, r.total, t2 \o r.trace, ea, ep)

\* A handler that calls the generator before it compares the identities.
retrieve_external_account_for_user_InsertFirst(toks, ea, ep, bearer_token, account_bank, user_name, user_id, new_id, account_type, account_balance, now) ==
    LET v == bearer_token_validation(toks, bearer_token, now)
        t1 == v.trace \o <<"validated">>
        t2 == t1 \o <<"matched">>
        r == ExternalAccounts_retrieve_external_account_for_user(
                 ea, account_bank, user_name, user_id, new_id, account_type,
                 account_balance)
    IN  IF v.status # 200
        THEN Result(v, v.status, v.detail, {}, 0, v.trace, ea, ep)
        ELSE IF ~r.ok
        THEN Result(v, 500, "Internal Server Error", {}, 0, t1, ea, ep)
        ELSE IF ~OwnsNameAndId(v.user, user_name, user_id)
        THEN Result(v, 403, Unauthorized, {}, 0, t1, r.coll, ep)
        ELSE Result(v, 200, "ok", {r.doc}, 0,
                    t2 \o <<"external_accounts.insert_one">>, r.coll, ep)

retrieve_external_account_for_user(toks, ea, ep, bearer_token, account_bank, user_name, user_id, new_id, account_type, account_balance, now) ==
    LET v == bearer_token_validation(toks, bearer_token, now)
        t1 == v.trace \o <<"validated">>
        t2 == t1 \o <<"matched">>
        r == ExternalAccounts_retrieve_external_account_for_user(
                 ea, account_bank, user_name, user_id, new_id, account_type,
                 account_balance)
    IN  IF v.status # 200
        THEN Result(v, v.status, v.detail, {}, 0, v.trace, ea, ep)
        ELSE IF ~OwnsNameAndId(v.user, user_name, user_id)
        THEN Result(v, 403, Unauthorized, {}, 0, t1, ea, ep)
        ELSE IF ~r.ok
        THEN Result(v, 500, "Internal Server Error", {}, 0, t2, ea, ep)
        ELSE Result(v, 200, "ok", {r.doc}, 0,
                    t2 \o <<"external_accounts.insert_one">>, r.coll, ep)

retrieve_external_product_for_user(toks, ea, ep, bearer_token, product_bank, user_name, user_id, new_id, product_type, product_amount, now) ==
    LET v == bearer_token_validation(toks, bearer_token, now)
        t1 == v.trace \o <<"validated">>
        t2 == t1 \o <<"matched">>
        r == ExternalFinancialProducts_retrieve_external_product_for_user(
                 ep, product_bank, user_name, user_id, new_id, product_type,
                 product_amount)
    IN  IF v.status # 200
        THEN Result(v, v.status, v.detail, {}, 0, v.trace, ea, ep)
        ELSE IF ~OwnsNameAndId(v.user, user_name, user_id)
        THEN Result(v, 403, Unauthorized, {}, 0, t1, ea, ep)
        ELSE IF ~r.ok
        THEN Result(v, 500, "Internal Server Error", {}, 0, t2, ea, ep)
        ELSE Result(v, 200, "ok", {r.doc}, 0,
                    t2 \o <<"external_products.insert_one">>, ea, r.coll)

(***************************************************************************)
(* Initial contents of the store.                                          *)
(***************************************************************************)
TokenDoc(id, name, tok, used) ==
    [_id |-> id, UserName |-> name, BearerToken |-> tok, LastUseDate |-> used]

\* The credential of user A ("al") and of user B, whose UserName is the hex
\* rendering of A's identifier.
TokenStores ==
    {<<TokenDoc(Oid("a"), NameAl, Tok1, ua)>> : ua \in {NoDate, 0}}
    \cup
    {<<TokenDoc(Oid("a"), NameAl, Tok1, ua),
       TokenDoc(Oid("b"), NameHex, Tok2, ub)>> :
         ua \in {NoDate, 0}, ub \in {NoDate, 0}}
    \cup
    {<<TokenDoc(Oid("b"), NameHex, Tok2, ub),
       TokenDoc(Oid("a"), NameAl, Tok1, ua)>> :
         ua \in {NoDate}, ub \in {NoDate, 0}}

UserA == [UserName |-> NameAl, UserId |-> Oid("a")]

UserB == [UserName |-> NameHex, UserId |-> Oid("b")]

UserDoc(u) == [_id |-> u.UserId, UserName |-> u.UserName, LinkedAccounts |-> {}]

AccountDoc(id, number, balance, owner) ==
    [_id |-> id, AccountNumber |-> number, AccountBank |-> "LeafyBank",
     AccountStatus |-> "Active", AccountBalance |-> balance,
     AccountUser |-> owner, ClosingDate |-> NoDate]

ExternalAccountDoc(id, bank, type, balance, owner) ==
    [_id |-> id, AccountBank |-> bank, AccountStatus |-> "Active",
     AccountType |-> type, AccountBalance |-> balance, AccountUser |-> owner]

ExternalProductDoc(id, bank, type, amount, owner) ==
    [_id |-> id, ProductBank |-> bank, ProductStatus |-> "Active",
     ProductType |-> type, ProductAmount |-> amount,
     ProductCustomer |-> owner]

TransactionDoc(id, amount, owner) ==
    [_id |-> id, TransactionAmount |-> amount, TransactionUser |-> owner]

AccountPool ==
    <<AccountDoc(Oid("1"), <<"1">>, 500, UserA),
      AccountDoc(Oid("2"), <<"2">>, 30, UserA),
      AccountDoc(Oid("3"), <<"3">>, 70, UserB)>>

ExternalAccountPool ==
    <<ExternalAccountDoc(Oid("c"), "Green Bank", "Checking", 2000, UserA),
      ExternalAccountDoc(Oid("5"), "MongoDB Bank", "Savings", 3000, UserA),
      ExternalAccountDoc(Oid("6"), "Green Bank", "Savings", 4000, UserB)>>

ExternalProductPool ==
    <<ExternalProductDoc(Oid("d"), "Green Bank", "Loan", 10000, UserA),
      ExternalProductDoc(Oid("8"), "MongoDB Bank", "Insurance", 700, UserA),
      ExternalProductDoc(Oid("9"), "Green Bank", "Mortgage", 20000, UserB)>>

TransactionPool ==
    <<TransactionDoc(Oid("0"), 10, UserA),
      TransactionDoc(Oid("4"), 20, UserA),
      TransactionDoc(Oid("7"), 30, UserB)>>

\* The documents of a pool at the positions in keep, in the pool's order.
RECURSIVE Keep(_, _)
Keep(pool, keep) ==
    IF pool = <<>> THEN <<>>
    ELSE LET rest == Keep(SubSeq(pool, 1, Len(pool) - 1), keep)
         IN  IF Len(pool) \in keep THEN Append(rest, pool[Len(pool)])
             ELSE rest

KeyDoc(id, name, key, used) ==
    [_id |-> id, UserName |-> name, ApiKey |-> key, LastUseDate |-> used]

KeyStore ==
    <<KeyDoc(Oid("a"), NameAl, Tok1, NoDate),
      KeyDoc(Oid("b"), NameHex, Tok2, NoDate)>>

NoAllow == [t |-> "none", v |-> <<>>]

List(l) == [t |-> "list", v |-> l]

\* The service calls in progress, one per worker.
Workers == 1..MaxWorkers

NoCall ==
    [pc |-> "idle", op |-> "none", number |-> Empty, balance |-> 0,
     name |-> Empty, uid |-> Empty, id |-> None, account_id |-> Empty,
     used |-> FALSE, token |-> Empty, user |-> NoDoc, now |-> NoDate,
     doc |-> NoDoc, status |-> 0, failed |-> FALSE, tries |-> 0,
     allow |-> NoAllow, internal |-> 0,
     raised |-> "", ret |-> FALSE, changed |-> FALSE]

NoCalls == [w \in Workers |-> NoCall]

Response(op, token, pre) ==
    [op |-> op, token |-> token, ident |-> Empty, name |-> Empty,
     uid |-> Empty, bank |-> Empty, allow |-> NoAllow,
     status |-> 0, detail |-> "", auth |-> NoDoc, body |-> {}, total |-> 0,
     trace |-> <<>>, pre |-> pre, now |-> clock]

NoResponse == Response("none", Empty, <<>>)

\* No call is in progress: the previous response has been delivered.
Idle == resp.op = "none"

\* The response reaches the caller.
Deliver ==
    /\ ~Idle
    /\ resp' = NoResponse
    /\ UNCHANGED <<calls, store, clock>>

Tick ==
    /\ clock < MaxClock
    /\ clock' = clock + 1
    /\ UNCHANGED <<calls, store, resp>>

(***************************************************************************)
(* The authenticator applied on its own to every kind of credential.       *)
(***************************************************************************)
Credentials == {Empty, Tok1, Tok2, TokX}

Validate ==
    /\ Idle
    /\ \E bearer_token \in Credentials :
        LET r == bearer_token_validation(tokens, bearer_token, clock)
        IN  /\ tokens' = r.tokens
            /\ resp' = [Response("bearer_token_validation", bearer_token, tokens)
                          EXCEPT !.status = r.status, !.detail = r.detail,
                                 !.auth = r.user, !.trace = r.trace]
            /\ UNCHANGED <<calls, keys, users, accounts, transactions,
                           external_accounts, external_products, clock>>

InitAuth ==
    /\ tokens \in TokenStores
    /\ keys = <<>>
    /\ users = <<>>
    /\ accounts = <<>>
    /\ transactions = <<>>
    /\ external_accounts = <<>>
    /\ external_products = <<>>
    /\ clock = 0
    /\ resp = NoResponse
    /\ calls = NoCalls

NextAuth == Tick \/ Validate \/ Deliver

SpecAuth == InitAuth /\ [][NextAuth]_vars

IsValidation == resp.op = "bearer_token_validation"

Owners(coll, tok) == {i \in 1..Len(coll) : coll[i].BearerToken = tok}

\* C5: for a credential that matches a stored document, validate returns the
\* record that owns the credential, and on return that document's LastUseDate
\* is set to a value that is not below the value it had before the call.
C5_ValidReturnsOwnerAndStamps ==
    (IsValidation /\ Owners(resp.pre, resp.token) # {}) =>
        /\ resp.status = 200
        /\ resp.auth.BearerToken = resp.token
        /\ resp.auth \in {resp.pre[i] : i \in Owners(resp.pre, resp.token)}
        /\ \E i \in Owners(resp.pre, resp.token) :
              /\ resp.auth = resp.pre[i]
              /\ tokens[i].LastUseDate = resp.now
              /\ tokens[i].LastUseDate >= resp.pre[i].LastUseDate
              /\ tokens[i]._id = resp.pre[i]._id

C5_Witness ==
    /\ IsValidation
    /\ resp.status = 200
    /\ \E i \in Owners(resp.pre, resp.token) :
          /\ resp.pre[i].LastUseDate = 0
          /\ tokens[i].LastUseDate = MaxClock

\* C6: for the empty credential, validate fails with MissingCredential
\* (400), issues no query and leaves every credential document unchanged.
C6_EmptyIsMissingCredential ==
    (IsValidation /\ resp.token = Empty) =>
        /\ resp.status = 400
        /\ resp.detail = "Bearer token is missing."
        /\ IsNone(resp.auth)
        /\ resp.trace = <<>>
        /\ tokens = resp.pre

C6_Witness ==
    /\ IsValidation
    /\ resp.token = Empty
    /\ resp.status = 400
    /\ Len(tokens) = 2
    /\ clock > 0

\* C7: for a non-empty credential that matches no stored document, validate
\* fails with InvalidCredential (403) and leaves every credential document
\* unchanged: no LastUseDate is stamped.
C7_UnknownIsInvalidCredential ==
    (IsValidation /\ resp.token # Empty /\ Owners(resp.pre, resp.token) = {}) =>
        /\ resp.status = 403
        /\ resp.detail = "Invalid bearer token."
        /\ IsNone(resp.auth)
        /\ tokens = resp.pre
        /\ resp.trace = <<"tokens.find_one">>

C7_Witness ==
    /\ IsValidation
    /\ resp.token = Tok2
    /\ resp.status = 403
    /\ Len(tokens) = 1
    /\ clock > 0

(***************************************************************************)
(* The two aggregators applied on their own to every user identifier and   *)
(* allow-list, over every selection of the pool documents.                 *)
(***************************************************************************)
UserIdInputs == {Rep("a"), Rep("b"), Rep("A"), Malformed}

\* Identifiers of external accounts: two of user A (one in upper case), one
\* of user B, one that no document has, one malformed.
AccountIdInputs == {Rep("C"), Rep("5"), Rep("6"), Rep("f"), Malformed}

ProductIdInputs == {Rep("D"), Rep("8"), Rep("9"), Rep("f"), Malformed}

ListsOver(S) ==
    UNION {[1..n -> S] : n \in 0..MaxAllow}

AllowLists(S) == {NoAllow} \cup {List(l) : l \in ListsOver(S)}

TotalBalance ==
    /\ Idle
    /\ \E user_id \in UserIdInputs, allow \in AllowLists(AccountIdInputs) :
        LET r == get_user_account_balances(accounts, external_accounts,
                                           user_id, allow)
        IN  /\ resp' = [Response("get_user_account_balances", Empty, tokens)
                          EXCEPT !.uid = user_id, !.allow = allow,
                                 !.status = IF r.ok THEN 200 ELSE 500,
                                 !.total = r.total, !.trace = r.trace]
            /\ UNCHANGED <<calls, store, clock>>

TotalDebt ==
    /\ Idle
    /\ \E user_id \in UserIdInputs, allow \in AllowLists(ProductIdInputs) :
        LET r == get_user_total_debt(external_products, user_id, allow)
        IN  /\ resp' = [Response("get_user_total_debt", Empty, tokens)
                          EXCEPT !.uid = user_id, !.allow = allow,
                                 !.status = IF r.ok THEN 200 ELSE 500,
                                 !.total = r.total, !.trace = r.trace]
            /\ UNCHANGED <<calls, store, clock>>

InitData(keep) ==
    /\ accounts = Keep(AccountPool, keep)
    /\ transactions = Keep(TransactionPool, keep)
    /\ external_accounts = Keep(ExternalAccountPool, keep)
    /\ external_products = Keep(ExternalProductPool, keep)

InitAgg ==
    /\ tokens = <<>>
    /\ keys = <<>>
    /\ users = <<UserDoc(UserA), UserDoc(UserB)>>
    /\ \E keep \in SUBSET (1..3) : InitData(keep)
    /\ clock = 0
    /\ resp = NoResponse
    /\ calls = NoCalls

NextAgg == TotalBalance \/ TotalDebt \/ Deliver

SpecAgg == InitAgg /\ [][NextAgg]_vars

IsBalance == resp.op = "get_user_account_balances"

IsDebt == resp.op = "get_user_total_debt"

OwnedBy(coll, uid) ==
    {d \in Range(coll) : d.AccountUser.UserId = ObjectId(uid)}

Listed(coll, l) ==
    {d \in Range(coll) : \E i \in 1..Len(l) : ObjectId(l[i]) = d._id}

\* C8: with an empty or absent allow-list, the total balance of a user is
\* the sum of Balance over the internal accounts the user owns (0 when there
\* are none); the user's external accounts contribute nothing.
C8_NoAllowListIsInternalSum ==
    (IsBalance /\ is_valid(resp.uid) /\ ~TruthyList(resp.allow)) =>
        /\ resp.status = 200
        /\ resp.total = SumAccountBalance(OwnedBy(accounts, resp.uid))
        /\ resp.trace = <<"accounts.aggregate">>

C8_Witness ==
    /\ IsBalance
    /\ resp.allow = List(<<>>)
    /\ resp.uid = Rep("a")
    /\ OwnedBy(external_accounts, resp.uid) # {}
    /\ resp.total = 530

\* C9: with a non-empty allow-list of identifiers, the total balance is the
\* user's internal sum plus the sum of Balance over exactly the external
\* accounts whose identifier is in the list and whose owner is the user; a
\* listed identifier of another user's account or of no document adds 0.
C9_AllowListNarrows ==
    (IsBalance /\ is_valid(resp.uid) /\ TruthyList(resp.allow)
       /\ AllValid(resp.allow.v)) =>
        /\ resp.status = 200
        /\ resp.total =
             SumAccountBalance(OwnedBy(accounts, resp.uid))
             + SumAccountBalance(OwnedBy(external_accounts, resp.uid)
                                 \cap Listed(external_accounts, resp.allow.v))

C9_Witness ==
    /\ IsBalance
    /\ resp.uid = Rep("a")
    /\ resp.allow = List(<<Rep("C"), Rep("6")>>)
    /\ Len(external_accounts) = 3
    /\ resp.total = 2530

\* C10: with an empty or absent allow-list, the total debt of a user is 0
\* and no query is issued, even when the user owns Loan or Mortgage products.
C10_NoAllowListIsZeroDebt ==
    (IsDebt /\ is_valid(resp.uid) /\ ~TruthyList(resp.allow)) =>
        /\ resp.status = 200
        /\ resp.total = 0
        /\ resp.trace = <<>>

C10_Witness ==
    /\ IsDebt
    /\ resp.uid = Rep("a")
    /\ resp.allow = NoAllow
    /\ \E d \in Range(external_products) :
          /\ d.ProductCustomer.UserId = Oid("a")
          /\ d.ProductType = "Loan"
    /\ resp.total = 0

\* The Loan and Mortgage products of a user.
DebtsOf(coll, uid) ==
    {d \in Range(coll) : /\ d.ProductCustomer.UserId = ObjectId(uid)
                         /\ d.ProductType \in {"Loan", "Mortgage"}}

\* C11: with a non-empty allow-list of identifiers, the total debt is the sum
\* of Amount over exactly the external products that are in the list, are
\* owned by the user and are of type Loan or Mortgage; a listed product of
\* another type or of another owner adds 0.
C11_AllowListDebt ==
    (IsDebt /\ is_valid(resp.uid) /\ TruthyList(resp.allow)
       /\ AllValid(resp.allow.v)) =>
        /\ resp.status = 200
        /\ resp.total =
             SumProductAmount(DebtsOf(external_products, resp.uid)
                              \cap Listed(external_products, resp.allow.v))
        /\ resp.trace = <<"external_products.aggregate">>

C11_Witness ==
    /\ IsDebt
    /\ resp.uid = Rep("a")
    /\ resp.allow = List(<<Rep("8"), Rep("D")>>)
    /\ Len(external_products) = 3
    /\ resp.total = 10000

(***************************************************************************)
(* The secured endpoints, one request at a time, over every selection of   *)
(* the pool documents.                                                     *)
(***************************************************************************)
BearerTokens == {Tok1, Tok2, TokX}

\* A's name, B's name (which is also the rendering of A's identifier), the
\* rendering of B's identifier, A's identifier in upper case, nobody's name
\* and the empty string.
Identifiers == {NameAl, NameHex, Rep("b"), Rep("A"), NameBo, Empty}

UserNames == {NameAl, NameHex, NameBo}

Banks == {"Green Bank", "MongoDB Bank"}

\* One sample of _generate_random_balance(2000, 10000) and of
\* _generate_random_amount(10000, 50000).
BalanceDraws == {2000}

AmountDraws == {10000}

EndpointAllowLists(S) ==
    {NoAllow} \cup {List(l) : l \in UNION {[1..n -> S] : n \in 0..1}}

\* The values ObjectId() returns, in the order it returns them.
FreshIds ==
    [n \in 1..(MaxInserted + 1) |->
        ObjectId([i \in 1..(2 * 12) |->
                     IF i <= 12 THEN "e"
                     ELSE IF i <= 12 + n THEN "1" ELSE "0"])]

Generated ==
    {d \in Range(external_accounts) \cup Range(external_products) :
        d._id \in Range(FreshIds)}

NewObjectId == FreshIds[Cardinality(Generated) + 1]

Handle(op, r, token, ident, name, uid, bank, allow) ==
    /\ tokens' = r.tokens
    /\ external_accounts' = r.external_accounts
    /\ external_products' = r.external_products
    /\ resp' = [op |-> op, token |-> token, ident |-> ident, name |-> name,
                uid |-> uid, bank |-> bank, allow |-> allow,
                status |-> r.status, detail |-> r.detail, auth |-> r.auth,
                body |-> r.body, total |-> r.total, trace |-> r.trace,
                pre |-> tokens, now |-> clock]
    /\ UNCHANGED <<calls, keys, users, accounts, transactions, clock>>

FetchAccountsForUser ==
    /\ Idle
    /\ \E tok \in BearerTokens, id \in Identifiers :
        Handle("fetch_accounts_for_user",
               fetch_accounts_for_user(tokens, accounts, external_accounts,
                                       external_products, tok, id, clock),
               tok, id, Empty, Empty, "", NoAllow)

FindUser ==
    /\ Idle
    /\ \E tok \in BearerTokens, id \in Identifiers :
        Handle("find_user",
               find_user(tokens, users, external_accounts, external_products,
                         tok, id, clock),
               tok, id, Empty, Empty, "", NoAllow)

FetchRecentTransactionsForUser ==
    /\ Idle
    /\ \E tok \in BearerTokens, id \in Identifiers :
        Handle("fetch_recent_transactions_for_user",
               fetch_recent_transactions_for_user(
                   tokens, users, transactions, external_accounts,
                   external_products, tok, id, clock),
               tok, id, Empty, Empty, "", NoAllow)

FetchExternalAccountsForUserAndInstitution ==
    /\ Idle
    /\ \E tok \in BearerTokens, id \in Identifiers, bank \in Banks :
        Handle("fetch_external_accounts_for_user_and_institution",
               fetch_external_accounts_for_user_and_institution(
                   tokens, external_accounts, external_products, tok, id,
                   bank, clock),
               tok, id, Empty, Empty, bank, NoAllow)

FetchExternalProductsForUserAndInstitution ==
    /\ Idle
    /\ \E tok \in BearerTokens, id \in Identifiers, bank \in Banks :
        Handle("fetch_external_products_for_user_and_institution",
               fetch_external_products_for_user_and_institution(
                   tokens, external_accounts, external_products, tok, id,
                   bank, clock),
               tok, id, Empty, Empty, bank, NoAllow)

FetchAllExternalAccountsForUser ==
    /\ Idle
    /\ \E tok \in BearerTokens, id \in Identifiers :
        Handle("fetch_all_external_accounts_for_user",
               fetch_all_external_accounts_for_user(
                   tokens, external_accounts, external_products, tok, id,
                   clock),
               tok, id, Empty, Empty, "", NoAllow)

FetchAllExternalProductsForUser ==
    /\ Idle
    /\ \E tok \in BearerTokens, id \in Identifiers :
        Handle("fetch_all_external_products_for_user",
               fetch_all_external_products_for_user(
                   tokens, external_accounts, external_products, tok, id,
                   clock),
               tok, id, Empty, Empty, "", NoAllow)

CalculateTotalBalanceForUser ==
    /\ Idle
    /\ \E tok \in BearerTokens, uid \in UserIdInputs,
       allow \in EndpointAllowLists({Rep("C"), Rep("6"), Malformed}) :
        Handle("calculate_total_balance_for_user",
               calculate_total_balance_for_user(
                   tokens, accounts, external_accounts, external_products,
                   tok, uid, allow, clock),
               tok, Empty, Empty, uid, "", allow)

CalculateTotalDebtForUser ==
    /\ Idle
    /\ \E tok \in BearerTokens, uid \in UserIdInputs,
       allow \in EndpointAllowLists({Rep("D"), Rep("9"), Malformed}) :
        Handle("calculate_total_debt_for_user",
               calculate_total_debt_for_user(
                   tokens, external_accounts, external_products, tok, uid,
                   allow, clock),
               tok, Empty, Empty, uid, "", allow)

RetrieveExternalAccountForUser ==
    /\ Idle
    /\ Cardinality(Generated) < MaxInserted
    /\ \E tok \in BearerTokens, name \in UserNames, uid \in UserIdInputs,
       bank \in Banks, type \in {"Checking", "Savings"},
       balance \in BalanceDraws :
        Handle("retrieve_external_account_for_user",
                  retrieve_external_account_for_user(
                      tokens, external_accounts, external_products, tok, bank,
                      name, uid, NewObjectId, type, balance, clock),
                  tok, Empty, name, uid, bank, NoAllow)

RetrieveExternalProductForUser ==
    /\ Idle
    /\ Cardinality(Generated) < MaxInserted
    /\ \E tok \in BearerTokens, name \in UserNames, uid \in UserIdInputs,
       bank \in Banks, type \in {"Loan", "Mortgage"},
       amount \in AmountDraws :
        Handle("retrieve_external_product_for_user",
                  retrieve_external_product_for_user(
                      tokens, external_accounts, external_products, tok, bank,
                      name, uid, NewObjectId, type, amount, clock),
                  tok, Empty, name, uid, bank, NoAllow)

\* The API-key router's handler: the credential documents are the keys.
FetchExternalAccountsForUser ==
    /\ Idle
    /\ \E key \in BearerTokens, id \in Identifiers, bank \in Banks :
        \E r \in {fetch_external_accounts_for_user(
                      keys, external_accounts, external_products, key, id,
                      bank, clock)} :
            /\ keys' = r.tokens
            /\ resp' = [Response("fetch_external_accounts_for_user", key, keys)
                          EXCEPT !.ident = id, !.bank = bank,
                                 !.status = r.status, !.detail = r.detail,
                                 !.auth = r.auth, !.body = r.body,
                                 !.trace = r.trace]
            /\ UNCHANGED <<calls, tokens, users, accounts, transactions,
                           external_accounts, external_products, clock>>

Init ==
    /\ tokens = <<TokenDoc(Oid("a"), NameAl, Tok1, NoDate),
                  TokenDoc(Oid("b"), NameHex, Tok2, NoDate)>>
    /\ keys = KeyStore
    /\ users = <<UserDoc(UserA), UserDoc(UserB)>>
    /\ \E keep \in {{}, 1..3} : InitData(keep)
    /\ clock = 0
    /\ resp = NoResponse
    /\ calls = NoCalls

Next ==
    \/ FetchAccountsForUser
    \/ FindUser
    \/ FetchRecentTransactionsForUser
    \/ FetchExternalAccountsForUserAndInstitution
    \/ FetchExternalProductsForUserAndInstitution
    \/ FetchAllExternalAccountsForUser
    \/ FetchAllExternalProductsForUser
    \/ CalculateTotalBalanceForUser
    \/ CalculateTotalDebtForUser
    \/ RetrieveExternalAccountForUser
    \/ RetrieveExternalProductForUser
    \/ Deliver

Spec == Init /\ [][Next]_vars

(***************************************************************************)
(* The lookups that take one user_identifier, over every selection of the  *)
(* pool documents and every credential store.                              *)
(***************************************************************************)
InitLookup ==
    /\ tokens \in TokenStores
    /\ keys = KeyStore
    /\ users = <<UserDoc(UserA), UserDoc(UserB)>>
    /\ \E keep \in SUBSET (1..3) : InitData(keep)
    /\ clock = 0
    /\ resp = NoResponse
    /\ calls = NoCalls

NextLookup ==
    \/ FetchAccountsForUser
    \/ FindUser
    \/ FetchRecentTransactionsForUser
    \/ FetchExternalAccountsForUserAndInstitution
    \/ FetchExternalProductsForUserAndInstitution
    \/ FetchAllExternalAccountsForUser
    \/ FetchAllExternalProductsForUser
    \/ FetchExternalAccountsForUser
    \/ Deliver

SpecLookup == InitLookup /\ [][NextLookup]_vars

(***************************************************************************)
(* Properties of the secured endpoints.                                    *)
(***************************************************************************)
SingleIdentifierOps ==
    {"fetch_accounts_for_user", "find_user",
     "fetch_recent_transactions_for_user",
     "fetch_external_accounts_for_user_and_institution",
     "fetch_external_products_for_user_and_institution",
     "fetch_all_external_accounts_for_user",
     "fetch_all_external_products_for_user",
     "fetch_external_accounts_for_user"}

NameAndIdOps ==
    {"retrieve_external_account_for_user",
     "retrieve_external_product_for_user"}

UserIdOps ==
    {"calculate_total_balance_for_user", "calculate_total_debt_for_user"}

\* The owning-user reference of a returned record.
OwnerOf(d) ==
    IF "AccountUser" \in DOMAIN d THEN d.AccountUser
    ELSE IF "ProductCustomer" \in DOMAIN d THEN d.ProductCustomer
    ELSE IF "TransactionUser" \in DOMAIN d THEN d.TransactionUser
    ELSE [UserName |-> d.UserName, UserId |-> d._id]

Authenticated == ~IsNone(resp.auth)

Did(event) == \E i \in DOMAIN resp.trace : resp.trace[i] = event

\* C1: every record returned by a secured lookup that takes one
\* user_identifier is owned by the authenticated user: its owner name is the
\* caller's UserName or its owner id is the caller's _id.
C1_ReturnedRecordsBelongToCaller ==
    (resp.op \in SingleIdentifierOps /\ resp.status = 200) =>
        \A d \in resp.body :
            \/ OwnerOf(d).UserName = resp.auth.UserName
            \/ OwnerOf(d).UserId = resp.auth._id

DataQueries ==
    {"accounts.find", "accounts.aggregate", "users.find_one",
     "transactions.find", "external_accounts.find",
     "external_accounts.aggregate", "external_accounts.insert_one",
     "external_products.find", "external_products.aggregate",
     "external_products.insert_one"}

\* What the identity match of each class of endpoint requires.
MatchHolds ==
    IF resp.op \in SingleIdentifierOps
    THEN \/ resp.auth.UserName = resp.ident
         \/ str(resp.auth._id) = resp.ident
    ELSE IF resp.op \in NameAndIdOps
    THEN /\ resp.auth.UserName = resp.name
         /\ str(resp.auth._id) = resp.uid
    ELSE /\ is_valid(resp.uid)
         /\ resp.auth._id = ObjectId(resp.uid)

\* C2: in every secured request, the credential is validated and then the
\* identity match passes before any query on the accounts, users,
\* transactions, external_accounts or external_products collections; a
\* request that fails either step issues no such query.
C2_ValidateThenMatchBeforeQueries ==
    (resp.op \in SingleIdentifierOps \cup NameAndIdOps \cup UserIdOps) =>
        /\ \A i \in DOMAIN resp.trace :
              resp.trace[i] \in DataQueries =>
                 \E j \in 1..(i - 1), k \in 1..(i - 1) :
                    /\ j < k
                    /\ resp.trace[j] = "validated"
                    /\ resp.trace[k] = "matched"
        /\ (\E i \in DOMAIN resp.trace : resp.trace[i] \in DataQueries) =>
              /\ Authenticated
              /\ \E i \in DOMAIN resp.pre : resp.pre[i] = resp.auth
              /\ resp.auth.BearerToken = resp.token
              /\ MatchHolds
        /\ Did("validated") <=> Authenticated
        /\ Did("matched") => MatchHolds

C2_Witness ==
    /\ resp.op = "calculate_total_balance_for_user"
    /\ resp.status = 200
    /\ resp.total = 2530
    /\ resp.trace = <<"tokens.find_one", "tokens.update_one", "validated",
                      "matched", "accounts.aggregate",
                      "external_accounts.aggregate">>

BalanceInputs ==
    {0 - 1, 0, initial_balance_limit, initial_balance_limit + 1}

\* The calls of create_account: a new account number with each balance, a
\* number an account already has, a name that does not go with the id, an
\* id that is no ObjectId.
CreateInputs ==
    {[number |-> <<"9">>, balance |-> b, name |-> NameAl, uid |-> Rep("a")] :
        b \in BalanceInputs}
    \cup
    {[number |-> <<"1">>, balance |-> 0, name |-> NameAl, uid |-> Rep("a")],
     [number |-> <<"8">>, balance |-> 0, name |-> NameAl, uid |-> Rep("a")],
     [number |-> <<"9">>, balance |-> 0, name |-> NameBo, uid |-> Rep("a")],
     [number |-> <<"9">>, balance |-> 0, name |-> NameAl, uid |-> Malformed]}

\* The values ObjectId() returns to create_account.
AccountFreshIds ==
    [n \in 1..MaxAccounts |->
        ObjectId([i \in 1..(2 * 12) |->
                     IF i <= 12 THEN "d"
                     ELSE IF i <= 12 + n THEN "1" ELSE "0"])]

Inserting == {w \in Workers : calls[w].pc = "insert"}

NewAccountId ==
    LET taken == {d._id : d \in Range(accounts)}
                 \cup {calls[w].id : w \in Inserting}
    IN  AccountFreshIds[Min({n \in DOMAIN AccountFreshIds :
                                AccountFreshIds[n] \notin taken})]

CloseIdInputs ==
    {Rep("1"), Rep("2"), Rep("f"), Malformed}
    \cup {str(AccountFreshIds[n]) : n \in DOMAIN AccountFreshIds}

\* The caller of a finished call takes its result before another call
\* finishes.
NoneDone == \A w \in Workers : calls[w].pc # "done"

\* The workers are alike: a new call goes to the idle worker of the lowest
\* number.
LowestIdle(w) == \A v \in 1..(w - 1) : calls[v].pc # "idle"

\* create_account, lines 99-136: the conversions, reads and checks.
CreateAccount(w) ==
    /\ calls[w].pc = "idle"
    /\ LowestIdle(w)
    /\ NoneDone
    /\ Len(accounts) + Cardinality(Inserting) < MaxAccounts
    /\ \E in \in CreateInputs :
        LET c == create_account_checks(users, accounts, in.number, in.balance,
                                       in.name, in.uid)
            call == [NoCall EXCEPT !.op = "create_account",
                                   !.number = in.number, !.balance = in.balance,
                                   !.name = in.name, !.uid = in.uid,
                                   !.used = \E d \in Range(accounts) :
                                               d.AccountNumber = in.number]
        IN  calls' = [calls EXCEPT ![w] =
                        IF c = "ok"
                        THEN [call EXCEPT !.pc = "insert", !.id = NewAccountId]
                        ELSE [call EXCEPT !.pc = "done", !.raised = c]]
    /\ UNCHANGED <<store, clock, resp>>

\* create_account, lines 139-160: insert_one.
InsertAccount(w) ==
    /\ calls[w].pc = "insert"
    /\ accounts' = create_account_insert(accounts,
                       create_account_data(calls[w].id, calls[w].number,
                                           calls[w].balance, calls[w].name,
                                           calls[w].uid))
    /\ calls' = [calls EXCEPT ![w].pc = "link", ![w].changed = TRUE]
    /\ UNCHANGED <<tokens, keys, users, transactions, external_accounts,
                   external_products, clock, resp>>

\* insert_one raises: nothing was written.
InsertFails(w) ==
    /\ calls[w].pc = "insert"
    /\ NoneDone
    /\ calls' = [calls EXCEPT ![w].pc = "done", ![w].raised = "PyMongoError"]
    /\ UNCHANGED <<store, clock, resp>>

\* create_account, lines 163-168: update_one and return account_id.
LinkAccount(w) ==
    /\ calls[w].pc = "link"
    /\ NoneDone
    /\ users' = create_account_link(users, ObjectId(calls[w].uid), calls[w].id)
    /\ calls' = [calls EXCEPT ![w].pc = "done", ![w].ret = TRUE]
    /\ UNCHANGED <<tokens, keys, accounts, transactions, external_accounts,
                   external_products, clock, resp>>

\* update_one raises: the account stays inserted.
LinkFails(w) ==
    /\ calls[w].pc = "link"
    /\ NoneDone
    /\ calls' = [calls EXCEPT ![w].pc = "done", ![w].raised = "PyMongoError"]
    /\ UNCHANGED <<store, clock, resp>>

\* close_account, with the time datetime.now gives it: not before the time
\* of an earlier call.
CloseAccount(w) ==
    /\ calls[w].pc = "idle"
    /\ LowestIdle(w)
    /\ NoneDone
    /\ \E account_id \in CloseIdInputs, now \in clock..MaxClock :
        LET r == close_account(accounts, account_id, now)
        IN  /\ accounts' = r.accounts
            /\ clock' = now
            /\ calls' = [calls EXCEPT ![w] =
                           [NoCall EXCEPT !.pc = "done", !.op = "close_account",
                                          !.account_id = account_id,
                                          !.raised = r.raised, !.ret = r.ret,
                                          !.changed = (r.accounts # accounts)]]
    /\ UNCHANGED <<tokens, keys, users, transactions, external_accounts,
                   external_products, resp>>

\* The call returns or raises to its caller.
Return(w) ==
    /\ calls[w].pc = "done"
    /\ calls' = [calls EXCEPT ![w] = NoCall]
    /\ UNCHANGED <<store, clock, resp>>

LinkedTo(acc, u) ==
    [UserDoc(u) EXCEPT !.LinkedAccounts =
        {d._id : d \in {x \in Range(acc) : x.AccountUser.UserId = u.UserId}}]

InitAccounts ==
    /\ accounts \in {<<AccountDoc(Oid("1"), <<"1">>, 500, UserA)>>,
                     <<AccountDoc(Oid("1"), <<"1">>, 500, UserA),
                       AccountDoc(Oid("2"), <<"2">>, 0, UserB)>>}
    /\ users = <<LinkedTo(accounts, UserA), LinkedTo(accounts, UserB)>>
    /\ tokens = <<>>
    /\ keys = <<>>
    /\ transactions = <<>>
    /\ external_accounts = <<>>
    /\ external_products = <<>>
    /\ clock = 0
    /\ resp = NoResponse
    /\ calls = NoCalls

NextAccounts ==
    \E w \in Workers :
          \/ CreateAccount(w)
          \/ InsertAccount(w)
          \/ InsertFails(w)
          \/ LinkAccount(w)
          \/ LinkFails(w)
          \/ CloseAccount(w)
          \/ Return(w)

SpecAccounts == InitAccounts /\ [][NextAccounts]_vars

\* The same calls made one after the other, by one worker.
NextAccountCalls ==
    \/ CreateAccount(1)
    \/ InsertAccount(1)
    \/ InsertFails(1)
    \/ LinkAccount(1)
    \/ LinkFails(1)
    \/ CloseAccount(1)
    \/ Return(1)

SpecAccountCalls == InitAccounts /\ [][NextAccountCalls]_vars

(***************************************************************************)
(* Properties of AccountsService.                                          *)
(***************************************************************************)
Closed(w) == calls[w].pc = "done" /\ calls[w].op = "close_account"

Created(w) == calls[w].pc = "done" /\ calls[w].op = "create_account"

AccountOf(account_id) ==
    {d \in Range(accounts) : is_valid(account_id) /\ d._id = ObjectId(account_id)}

\* C12: close_account on an account whose balance is not 0 returns False and
\* changes no stored document: the account keeps its status and has no
\* closing date.
C12_CloseWithBalanceRefused ==
    \A w \in Workers :
        (Closed(w) /\ \E d \in AccountOf(calls[w].account_id) :
                          d.AccountBalance # 0) =>
            /\ calls[w].ret = FALSE
            /\ calls[w].raised = ""
            /\ ~calls[w].changed
            /\ \A d \in AccountOf(calls[w].account_id) :
                  d.AccountStatus = "Active" /\ d.ClosingDate = NoDate

C12_Witness ==
    /\ Closed(1)
    /\ calls[1].account_id = Rep("1")
    /\ \E d \in AccountOf(Rep("1")) : d.AccountBalance = 500
    /\ \E d \in Range(accounts) : d.AccountStatus = "Closed"

\* C13: the closing date of an account is written once: a step that finds
\* a closing date on an account leaves that date as it is.
C13_ClosingDateWrittenOnce ==
    [][\A i \in 1..Len(accounts) :
          accounts[i].ClosingDate # NoDate =>
             accounts'[i].ClosingDate = accounts[i].ClosingDate]_vars

\* C14: every Closed account has balance 0 and a closing date, and every
\* account without a closing date is Active.
C14_ClosedAccountsAreEmptyAndDated ==
    \A d \in Range(accounts) :
        /\ d.AccountStatus = "Closed" =>
              d.AccountBalance = 0 /\ d.ClosingDate # NoDate
        /\ d.ClosingDate = NoDate => d.AccountStatus = "Active"

C14_Witness ==
    /\ \E d \in Range(accounts) :
          /\ d.AccountStatus = "Closed"
          /\ d.ClosingDate = MaxClock
          /\ d._id \in Range(AccountFreshIds)
    /\ \E d \in Range(accounts) :
          d.AccountStatus = "Active" /\ d.AccountBalance = 0
    /\ Len(accounts) = MaxAccounts

ValueErrors ==
    {"ValueError: Invalid user ID or username.",
     "ValueError: Account balance must be greater than or equal to 0.",
     "ValueError: Account balance exceeds the limit.",
     "ValueError: An account with this number already exists."}

KnownPair(user_name, user_id) ==
    \E u \in Range(users) : str(u._id) = user_id /\ u.UserName = user_name

\* C15: create_account inserts only balances from 0 to 1000000; a call with
\* a balance outside that range, an unknown (user_id, user_name) pair or a
\* used account number raises ValueError and changes neither the accounts
\* nor the LinkedAccounts.
C15_CreateAccountRejects ==
    /\ \A d \in Range(accounts) :
          0 <= d.AccountBalance /\ d.AccountBalance <= 1000000
    /\ \A w \in Workers :
          (/\ Created(w)
           /\ \/ calls[w].balance < 0
              \/ calls[w].balance > 1000000
              \/ ~KnownPair(calls[w].name, calls[w].uid)
              \/ calls[w].used) =>
              /\ calls[w].raised \in ValueErrors
              /\ ~calls[w].changed

\* C16: no two account documents have the same AccountNumber.
C16_AccountNumbersUnique ==
    \A i \in 1..Len(accounts), j \in 1..Len(accounts) :
        i # j => accounts[i].AccountNumber # accounts[j].AccountNumber

\* C17: whenever no create_account is between its two writes, an account
\* document exists exactly when its _id is in its owner's LinkedAccounts.
C17_AccountsLinked ==
    (\A w \in Workers : calls[w].pc \in {"idle", "done"}) =>
        /\ \A d \in Range(accounts) :
              \E u \in Range(users) :
                  u._id = d.AccountUser.UserId /\ d._id \in u.LinkedAccounts
        /\ \A u \in Range(users) :
              \A id \in u.LinkedAccounts :
                  \E d \in Range(accounts) :
                      d._id = id /\ d.AccountUser.UserId = u._id

(***************************************************************************)
(* Auth.bearer_token_validation under concurrent requests: find_one, the   *)
(* evaluation of datetime.now and update_one are separate steps of each    *)
(* caller.                                                                 *)
(***************************************************************************)
\* Lines 23-32: the empty check and find_one.
ValidateFind(w) ==
    /\ calls[w].pc = "idle"
    /\ LowestIdle(w)
    /\ NoneDone
    /\ \E bearer_token \in Credentials :
        LET user == find_one(tokens, {d \in Range(tokens) :
                                         d.BearerToken = bearer_token})
            call == [NoCall EXCEPT !.op = "bearer_token_validation",
                                   !.token = bearer_token]
        IN  calls' = [calls EXCEPT ![w] =
                IF ~Truthy(bearer_token)
                THEN [call EXCEPT !.pc = "done",
                                  !.raised = "400: Bearer token is missing."]
                ELSE IF IsNone(user)
                THEN [call EXCEPT !.pc = "done",
                                  !.raised = "403: Invalid bearer token."]
                ELSE [call EXCEPT !.pc = "now", !.user = user]]
    /\ UNCHANGED <<store, clock, resp>>

\* Line 36: datetime.now(timezone.utc), evaluated by the caller while it
\* builds the arguments of update_one.
ValidateNow(w) ==
    /\ calls[w].pc = "now"
    /\ NoneDone
    /\ calls' = [calls EXCEPT ![w].pc = "update", ![w].now = clock]
    /\ UNCHANGED <<store, clock, resp>>

\* Lines 34-40: update_one reaches the store, then the document read at
\* line 28 is returned.
ValidateUpdate(w) ==
    /\ calls[w].pc = "update"
    /\ NoneDone
    /\ tokens' = StampLastUse(tokens, calls[w].token, calls[w].now)
    /\ calls' = [calls EXCEPT ![w].pc = "done", ![w].ret = TRUE,
                              ![w].changed = (tokens' # tokens)]
    /\ UNCHANGED <<keys, users, accounts, transactions, external_accounts,
                   external_products, clock, resp>>

\* update_one raises: nothing in the method catches it.
ValidateUpdateFails(w) ==
    /\ calls[w].pc = "update"
    /\ NoneDone
    /\ calls' = [calls EXCEPT ![w].pc = "done", ![w].raised = "PyMongoError"]
    /\ UNCHANGED <<store, clock, resp>>

NextValidate ==
    \/ Tick
    \/ \E w \in Workers :
          \/ ValidateFind(w)
          \/ ValidateNow(w)
          \/ ValidateUpdate(w)
          \/ ValidateUpdateFails(w)
          \/ Return(w)

SpecValidate == InitAuth /\ [][NextValidate]_vars

\* C18: no step lowers the LastUseDate of a token document, and no step
\* changes its owner or its BearerToken.
C18_LastUseDateNeverDecreases ==
    [][\A i \in 1..Len(tokens) :
          /\ tokens'[i].LastUseDate >= tokens[i].LastUseDate
          /\ tokens'[i]._id = tokens[i]._id
          /\ tokens'[i].UserName = tokens[i].UserName
          /\ tokens'[i].BearerToken = tokens[i].BearerToken]_vars

\* C19: a validation whose credential matched a stored document ends
\* without an exception and returns that document.
C19_ValidDespiteFailedStamp ==
    \A w \in Workers :
        (/\ calls[w].pc = "done"
         /\ calls[w].op = "bearer_token_validation"
         /\ ~IsNone(calls[w].user)) =>
            calls[w].raised = "" /\ calls[w].ret = TRUE

(***************************************************************************)
(* How the secured endpoints answer a failed authorization.                *)
(***************************************************************************)
AuthorizationClass == {401, 403}

SecuredOps == SingleIdentifierOps \cup NameAndIdOps \cup UserIdOps

Attempts == {i \in DOMAIN resp.trace : resp.trace[i] = "tokens.find_one"}

\* The request names a target identity: its identifier is not empty.
NamesIdentity == resp.op \in SingleIdentifierOps => Truthy(resp.ident)

\* C20: a secured request whose credential matches no document, or whose
\* credential does not own the identity it names, is answered with an
\* authorization status (never 200, never 500), and every secured request
\* looks its credential up exactly once.
C20_AuthorizationFailuresSurface ==
    resp.op \in SecuredOps =>
        /\ ~Authenticated => resp.status \in AuthorizationClass
        /\ (Authenticated /\ NamesIdentity /\ ~MatchHolds) =>
              resp.status \in AuthorizationClass
        /\ Cardinality(Attempts) = 1

(***************************************************************************)
(* The identity match on identifiers given in another letter case.         *)
(***************************************************************************)
\* The identifier a request claims, and the match on its structured form.
ClaimedId == IF resp.op \in SingleIdentifierOps THEN resp.ident ELSE resp.uid

StructuredMatch ==
    IF resp.op \in SingleIdentifierOps
    THEN \/ resp.auth.UserName = resp.ident
         \/ resp.auth._id = ObjectId(resp.ident)
    ELSE IF resp.op \in NameAndIdOps
    THEN /\ resp.auth.UserName = resp.name
         /\ resp.auth._id = ObjectId(resp.uid)
    ELSE resp.auth._id = ObjectId(resp.uid)

\* C21: on every secured endpoint, when the claimed identifier is a
\* well-formed 24-character hex string the identity match passes exactly
\* when the identifier it denotes is the authenticated user's _id (or, where
\* a name is accepted, the string is the UserName): the letter case of the
\* hex digits does not change the outcome.
C21_StructuredIdentifierMatch ==
    (resp.op \in SecuredOps /\ Authenticated /\ is_valid(ClaimedId)) =>
        (Did("matched") <=> StructuredMatch)

(***************************************************************************)
(* The point lookups of AccountsService and UsersService, called between   *)
(* create_account and close_account calls.                                 *)
(***************************************************************************)
GetAccountByNumber(w) ==
    /\ calls[w].pc = "idle"
    /\ \E account_number \in {<<"1">>, <<"2">>, <<"8">>, <<"7">>} :
        calls' = [calls EXCEPT ![w] =
            [NoCall EXCEPT !.pc = "done", !.op = "get_account_by_number",
                           !.number = account_number,
                           !.doc = get_account_by_number(accounts,
                                                         account_number)]]
    /\ UNCHANGED <<store, clock, resp>>

GetActiveAccountByNumber(w) ==
    /\ calls[w].pc = "idle"
    /\ \E account_number \in {<<"1">>, <<"2">>, <<"8">>, <<"7">>} :
        calls' = [calls EXCEPT ![w] =
            [NoCall EXCEPT !.pc = "done",
                           !.op = "get_active_account_by_number",
                           !.number = account_number,
                           !.doc = get_active_account_by_number(accounts,
                                                                account_number)]]
    /\ UNCHANGED <<store, clock, resp>>

GetUser(w) ==
    /\ calls[w].pc = "idle"
    /\ \E user_identifier \in {Str(NameAl), Str(NameBo), Str(Rep("a")),
                               Oid("a"), Oid("b"), Oid("f")} :
        calls' = [calls EXCEPT ![w] =
            [NoCall EXCEPT !.pc = "done", !.op = "get_user",
                           !.id = user_identifier,
                           !.doc = get_user(users, user_identifier)]]
    /\ UNCHANGED <<store, clock, resp>>

NextPointLookups ==
    \/ CreateAccount(1)
    \/ InsertAccount(1)
    \/ InsertFails(1)
    \/ LinkAccount(1)
    \/ LinkFails(1)
    \/ CloseAccount(1)
    \/ GetAccountByNumber(1)
    \/ GetActiveAccountByNumber(1)
    \/ GetUser(1)
    \/ Return(1)

SpecPointLookups == InitAccounts /\ [][NextPointLookups]_vars

Looked(w, op) == calls[w].pc = "done" /\ calls[w].op = op

\* C22: each point lookup returns a stored document that satisfies its
\* filter when there is one and None when there is none, without raising;
\* the active-only lookup returns only documents whose AccountStatus is
\* Active.
C22_PointLookupsFindOrNone ==
    \A w \in Workers :
        /\ Looked(w, "get_account_by_number") =>
              LET hits == {d \in Range(accounts) :
                              d.AccountNumber = calls[w].number}
              IN  /\ calls[w].raised = ""
                  /\ IF hits = {} THEN IsNone(calls[w].doc)
                     ELSE calls[w].doc \in hits
        /\ Looked(w, "get_active_account_by_number") =>
              LET hits == {d \in Range(accounts) :
                              /\ d.AccountNumber = calls[w].number
                              /\ d.AccountStatus = "Active"}
              IN  /\ calls[w].raised = ""
                  /\ IF hits = {} THEN IsNone(calls[w].doc)
                     ELSE calls[w].doc \in hits
        /\ Looked(w, "get_user") =>
              LET hits == {d \in Range(users) :
                              \/ d._id = calls[w].id
                              \/ Str(d.UserName) = calls[w].id}
              IN  /\ calls[w].raised = ""
                  /\ IF hits = {} THEN IsNone(calls[w].doc)
                     ELSE calls[w].doc \in hits

\* A closed account is found by number and not by the active-only lookup.
C22_Witness ==
    /\ Looked(1, "get_active_account_by_number")
    /\ IsNone(calls[1].doc)
    /\ \E d \in Range(accounts) :
          d.AccountNumber = calls[1].number /\ d.AccountStatus = "Closed"

(***************************************************************************)
(* The public router of Open Finance: get-authorization and create-user    *)
(* under concurrent requests.  find_one and insert_one of create_user are  *)
(* separate steps of each request.                                         *)
(***************************************************************************)
\* get_authorization: the 404 is raised inside the try block whose
\* "except Exception" answers every exception with 500.
get_authorization(coll, user_identifier, fails) ==
    LET byName(d) == d.UserName = user_identifier
        byEither(d) == \/ d.UserName = user_identifier
                       \/ d._id = ObjectId(user_identifier)
        user_document ==
            IF is_valid(user_identifier)
            THEN find_one(coll, {d \in Range(coll) : byEither(d)})
            ELSE find_one(coll, {d \in Range(coll) : byName(d)})
    IN  IF fails
        THEN [status |-> 500, detail |-> "Internal Server Error", doc |-> NoDoc]
        ELSE IF IsNone(user_document)
        THEN [status |-> 500, detail |-> "Internal Server Error", doc |-> NoDoc]
        ELSE [status |-> 200, detail |-> "ok", doc |-> user_document]

GetAuthorization(w) ==
    /\ calls[w].pc = "idle"
    /\ LowestIdle(w)
    /\ NoneDone
    /\ \E user_identifier \in {NameAl, NameHex, NameBo, Rep("b"), Rep("A"),
                               Rep("f"), Empty},
          fails \in BOOLEAN :
        LET r == get_authorization(tokens, user_identifier, fails)
        IN  calls' = [calls EXCEPT ![w] =
                [NoCall EXCEPT !.pc = "done", !.op = "get_authorization",
                               !.name = user_identifier, !.failed = fails,
                               !.status = r.status, !.raised = r.detail,
                               !.doc = r.doc]]
    /\ UNCHANGED <<store, clock, resp>>

\* create_user, one turn of the loop up to insert_one: the generated name,
\* find_one, and the generated token.  A request starts with max_retries
\* turns left.
CreateUserFind(w) ==
    /\ calls[w].pc \in {"idle", "retry"}
    /\ calls[w].pc = "idle" => LowestIdle(w)
    /\ NoneDone
    /\ Len(tokens) + Cardinality({v \in Workers : calls[v].pc = "insert"})
          < MaxTokens
    /\ \E max_retries \in 1..MaxRetries,
          generated_user_name \in {<<"u", "1">>, <<"u", "2">>},
          new_bearer_token \in {<<"k", "1">>, <<"k", "2">>} :
        LET left == IF calls[w].pc = "idle" THEN max_retries
                    ELSE calls[w].tries
            existing_user == find_one(tokens, {d \in Range(tokens) :
                                 d.UserName = generated_user_name})
            call == [NoCall EXCEPT !.op = "create_user", !.tries = left - 1]
        IN  calls' = [calls EXCEPT ![w] =
                IF IsNone(existing_user)
                THEN [call EXCEPT !.pc = "insert",
                                  !.name = generated_user_name,
                                  !.token = new_bearer_token]
                ELSE IF left > 1
                THEN [call EXCEPT !.pc = "retry"]
                ELSE [call EXCEPT !.pc = "done", !.status = 500,
                                  !.raised = "Could not generate a unique UserName after multiple attempts."]]
    /\ UNCHANGED <<store, clock, resp>>

\* insert_one gives the document its _id; LastUseDate is None.
CreateUserInsert(w) ==
    /\ calls[w].pc = "insert"
    /\ calls[w].op = "create_user"
    /\ NoneDone
    /\ tokens' = Append(tokens,
                    TokenDoc([t |-> "oid",
                              v |-> [i \in 1..24 |->
                                       IF i <= Len(tokens) + 1 THEN "e"
                                       ELSE "0"]],
                             calls[w].name, calls[w].token, NoDate))
    /\ calls' = [calls EXCEPT ![w].pc = "done", ![w].status = 201,
                              ![w].changed = TRUE]
    /\ UNCHANGED <<keys, users, accounts, transactions, external_accounts,
                   external_products, clock, resp>>

CreateUserInsertFails(w) ==
    /\ calls[w].pc = "insert"
    /\ calls[w].op = "create_user"
    /\ NoneDone
    /\ calls' = [calls EXCEPT ![w].pc = "done", ![w].status = 500,
                              ![w].raised = "PyMongoError"]
    /\ UNCHANGED <<store, clock, resp>>

NextPublic ==
    \E w \in Workers :
        \/ GetAuthorization(w)
        \/ CreateUserFind(w)
        \/ CreateUserInsert(w)
        \/ CreateUserInsertFails(w)
        \/ Return(w)

SpecPublic == InitAuth /\ [][NextPublic]_vars

\* C23: no two token documents have the same UserName, and no two have the
\* same BearerToken.
C23_CredentialsUnique ==
    \A i \in 1..Len(tokens), j \in 1..Len(tokens) :
        i # j => /\ tokens[i].UserName # tokens[j].UserName
                 /\ tokens[i].BearerToken # tokens[j].BearerToken

\* C29: get-authorization answers 404 'User not found.' when no token
\* document has the identifier as its UserName (or as its _id, for a
\* well-formed identifier), and answers 500 only when the query failed.
C29_AuthorizationNotFound ==
    \A w \in Workers :
        (calls[w].pc = "done" /\ calls[w].op = "get_authorization") =>
            LET id == calls[w].name
                hits == {d \in Range(tokens) :
                            \/ d.UserName = id
                            \/ is_valid(id) /\ d._id = ObjectId(id)}
            IN  /\ (~calls[w].failed /\ hits = {}) =>
                      /\ calls[w].status = 404
                      /\ calls[w].raised = "User not found."
                /\ calls[w].status = 500 => calls[w].failed

(***************************************************************************)
(* calculate_total_balance_for_user past the identity match: the try       *)
(* block around get_user_account_balances, whose two aggregate queries are *)
(* separate steps and may each fail.  tries counts the queries issued.     *)
(***************************************************************************)
\* A second step that answers with the internal total when its query fails.
GetUserAccountBalancesExternal_BestEffort(w) ==
    /\ calls[w].pc = "external"
    /\ \E fails \in BOOLEAN :
        calls' = [calls EXCEPT ![w] =
            IF ~AllValid(calls[w].allow.v)
            THEN [@ EXCEPT !.pc = "done", !.status = 500,
                           !.raised = "Internal Server Error"]
            ELSE IF fails
            THEN [@ EXCEPT !.pc = "done", !.tries = 2, !.failed = TRUE,
                           !.status = 200, !.ret = TRUE,
                           !.balance = calls[w].internal]
            ELSE [@ EXCEPT !.pc = "done", !.tries = 2, !.status = 200,
                           !.ret = TRUE,
                           !.balance = calls[w].internal
                               + _aggregate_external_account_balances(
                                     external_accounts,
                                     ObjectId(calls[w].uid),
                                     calls[w].allow)]]
    /\ UNCHANGED <<store, clock, resp>>

\* Lines 65-69 and, without a list, 72-85: ObjectId(user_id) and the
\* aggregate over accounts.
GetUserAccountBalancesInternal(w) ==
    /\ calls[w].pc = "idle"
    /\ \E user_id \in {Rep("a"), Rep("b"), Malformed},
          allow \in AllowLists({Rep("C"), Rep("5"), Malformed}),
          fails \in BOOLEAN :
        LET call == [NoCall EXCEPT !.op = "get_user_account_balances",
                                   !.uid = user_id, !.allow = allow]
            internal_total_balance ==
                _aggregate_internal_account_balances(accounts,
                                                     ObjectId(user_id))
        IN  calls' = [calls EXCEPT ![w] =
                IF ~is_valid(user_id)
                THEN [call EXCEPT !.pc = "done", !.status = 500,
                                  !.raised = "Internal Server Error"]
                ELSE IF fails
                THEN [call EXCEPT !.pc = "done", !.tries = 1,
                                  !.failed = TRUE, !.status = 500,
                                  !.raised = "Internal Server Error"]
                ELSE IF ~TruthyList(allow)
                THEN [call EXCEPT !.pc = "done", !.tries = 1,
                                  !.status = 200, !.ret = TRUE,
                                  !.internal = internal_total_balance,
                                  !.balance = internal_total_balance + 0]
                ELSE [call EXCEPT !.pc = "external", !.tries = 1,
                                  !.internal = internal_total_balance]]
    /\ UNCHANGED <<store, clock, resp>>

\* Lines 73-85: the ObjectId() of every listed identifier, the aggregate
\* over external_accounts and the sum.
GetUserAccountBalancesExternal(w) ==
    /\ calls[w].pc = "external"
    /\ \E fails \in BOOLEAN :
        calls' = [calls EXCEPT ![w] =
            IF ~AllValid(calls[w].allow.v)
            THEN [@ EXCEPT !.pc = "done", !.status = 500,
                           !.raised = "Internal Server Error"]
            ELSE IF fails
            THEN [@ EXCEPT !.pc = "done", !.tries = 2, !.failed = TRUE,
                           !.status = 500,
                           !.raised = "Internal Server Error"]
            ELSE [@ EXCEPT !.pc = "done", !.tries = 2, !.status = 200,
                           !.ret = TRUE,
                           !.balance = calls[w].internal
                               + _aggregate_external_account_balances(
                                     external_accounts,
                                     ObjectId(calls[w].uid),
                                     calls[w].allow)]]
    /\ UNCHANGED <<store, clock, resp>>

NextTotalBalance ==
    \/ GetUserAccountBalancesInternal(1)
    \/ GetUserAccountBalancesExternal(1)
    \/ Return(1)

SpecTotalBalance == InitAgg /\ [][NextTotalBalance]_vars

Totalled(w) ==
    calls[w].pc = "done" /\ calls[w].op = "get_user_account_balances"

\* C25: a total balance request in which a query failed is answered with
\* the generic failure and no number, and no query is issued after the
\* failed one; a request that is answered with a number issued every query
\* it needed, none failed, and the number is the whole sum.
C25_NoPartialTotal ==
    \A w \in Workers :
        Totalled(w) =>
            /\ calls[w].failed =>
                  /\ calls[w].status = 500
                  /\ calls[w].raised = "Internal Server Error"
                  /\ ~calls[w].ret
            /\ calls[w].ret =>
                  /\ calls[w].status = 200
                  /\ ~calls[w].failed
                  /\ calls[w].tries = IF TruthyList(calls[w].allow)
                                      THEN 2 ELSE 1
                  /\ calls[w].balance =
                       SumAccountBalance(OwnedBy(accounts, calls[w].uid))
                       + IF TruthyList(calls[w].allow)
                         THEN SumAccountBalance(
                                  OwnedBy(external_accounts, calls[w].uid)
                                  \cap Listed(external_accounts,
                                              calls[w].allow.v))
                         ELSE 0

\* The internal sum was computed and the external query failed.
C25_Witness ==
    /\ Totalled(1)
    /\ calls[1].failed
    /\ calls[1].tries = 2
    /\ calls[1].internal > 0
    /\ calls[1].status = 500

(***************************************************************************)
(* How the aggregation endpoints answer malformed identifiers.             *)
(***************************************************************************)
\* The request carries a user_id or a listed identifier that is not a
\* well-formed ObjectId string.
MalformedArgument ==
    \/ ~is_valid(resp.uid)
    \/ TruthyList(resp.allow) /\ ~AllValid(resp.allow.v)

\* C24: an authenticated calculate-total-balance-for-user or
\* calculate-total-debt-for-user request with a malformed user_id or a
\* malformed entry in its allow-list is not answered with the generic
\* failure (500 'Internal Server Error') and not with a total.
C24_MalformedIsInvalidArgument ==
    (resp.op \in UserIdOps /\ Authenticated /\ MalformedArgument) =>
        /\ resp.status # 200
        /\ ~(resp.status = 500 /\ resp.detail = "Internal Server Error")

(***************************************************************************)
(* The two credential families side by side: every API key document is     *)
(* the image of a token document, and each validator is applied to every   *)
(* kind of credential.                                                     *)
(***************************************************************************)
ValidateKey(w) ==
    /\ calls[w].pc = "idle"
    /\ \E api_key \in Credentials :
        LET r == api_key_validation(keys, api_key, clock)
        IN  /\ keys' = r.tokens
            /\ calls' = [calls EXCEPT ![w] =
                  [NoCall EXCEPT !.pc = "done", !.op = "api_key_validation",
                                 !.token = api_key, !.now = clock,
                                 !.status = r.status, !.raised = r.detail,
                                 !.user = r.user]]
    /\ UNCHANGED <<tokens, users, accounts, transactions, external_accounts,
                   external_products, clock, resp>>

InitFamilies ==
    /\ tokens \in TokenStores
    /\ keys = [i \in 1..Len(tokens) |->
                 KeyDoc(tokens[i]._id, tokens[i].UserName,
                        tokens[i].BearerToken, tokens[i].LastUseDate)]
    /\ users = <<>>
    /\ accounts = <<>>
    /\ transactions = <<>>
    /\ external_accounts = <<>>
    /\ external_products = <<>>
    /\ clock = 0
    /\ resp = NoResponse
    /\ calls = NoCalls

NextFamilies == Tick \/ Validate \/ Deliver \/ ValidateKey(1) \/ Return(1)

SpecFamilies == InitFamilies /\ [][NextFamilies]_vars

KeyValidated(w) == calls[w].pc = "done" /\ calls[w].op = "api_key_validation"

Grown(old, new) ==
    /\ Len(new) = Len(old) + 1
    /\ \A i \in 1..Len(old) : new[i] = old[i]

\* C27: a retrieve-external-account-for-user or
\* retrieve-external-product-for-user request that fails the validation or
\* the identity match leaves external_accounts and external_products as
\* they were; one that passes both appends exactly one document to the
\* collection of its kind and leaves the other collection as it was.
C27_RetrieveWritesOnlyWhenAuthorized ==
    [][(resp.op = "none" /\ resp'.op \in NameAndIdOps) =>
          IF Authenticated' /\ MatchHolds'
          THEN IF resp'.op = "retrieve_external_account_for_user"
               THEN /\ Grown(external_accounts, external_accounts')
                    /\ external_products' = external_products
               ELSE /\ Grown(external_products, external_products')
                    /\ external_accounts' = external_accounts
          ELSE /\ external_accounts' = external_accounts
               /\ external_products' = external_products]_vars

C27_Witness ==
    /\ resp.op = "retrieve_external_product_for_user"
    /\ resp.status = 200
    /\ Authenticated
    /\ MatchHolds
    /\ \E d \in Range(external_products) : d \in resp.body /\ d \in Generated

\* The owner reference of a generated document.
GeneratedOwner(d) ==
    IF "AccountUser" \in DOMAIN d THEN d.AccountUser ELSE d.ProductCustomer

\* C28: every document inserted through the two retrieve-external-*
\* endpoints has the UserName and the _id of one token document as its
\* owner name and owner identifier, and is Active; an inserted product is a
\* Loan or a Mortgage; the document a request has just inserted is owned by
\* the user the request was authenticated as.
C28_GeneratedRecordsBelongToCaller ==
    /\ \A d \in Generated :
          /\ \E t \in Range(tokens) :
                /\ t.UserName = GeneratedOwner(d).UserName
                /\ t._id = GeneratedOwner(d).UserId
          /\ "AccountStatus" \in DOMAIN d => d.AccountStatus = "Active"
          /\ "ProductStatus" \in DOMAIN d =>
                /\ d.ProductStatus = "Active"
                /\ d.ProductType \in {"Loan", "Mortgage"}
    /\ (resp.op \in NameAndIdOps /\ resp.status = 200) =>
          \A d \in resp.body :
              /\ d \in Generated
              /\ GeneratedOwner(d).UserName = resp.auth.UserName
              /\ GeneratedOwner(d).UserId = resp.auth._id

C28_Witness ==
    /\ resp.op = "retrieve_external_account_for_user"
    /\ resp.status = 200
    /\ resp.token = Tok2
    /\ \E d \in Generated :
          /\ d \in Range(external_accounts)
          /\ d.AccountUser.UserName = NameHex
          /\ d.AccountUser.UserId = Oid("b")

\* C30: on the four fetch-external-* endpoints of the secured router, an
\* authenticated request with an empty user_identifier is answered with 400
\* 'User identifier is required'.
C30_EmptyIdentifierIsRequired ==
    (/\ resp.op \in {"fetch_external_accounts_for_user_and_institution",
                     "fetch_external_products_for_user_and_institution",
                     "fetch_all_external_accounts_for_user",
                     "fetch_all_external_products_for_user"}
     /\ Authenticated
     /\ resp.ident = Empty) =>
        /\ resp.status = 400
        /\ resp.detail = Required

====
